---- MODULE Spec2Model ----
(***************************************************************************)
(* A model of the thesis checker's comment injector (add_word_comments),   *)
(* of its rule evaluators and of the runner run_checks, in src/Checker.py. *)
(*                                                                          *)
(* Text that the code takes apart (relationship Ids, comment ids) is a      *)
(* sequence of one-character strings, so that str(), int() and the regular  *)
(* expression rId(\d+) are computed and not assumed.                        *)
(***************************************************************************)
EXTENDS Integers, Sequences, FiniteSets, TLC

VARIABLES
    input_docx,     \* the container at the input path: part name -> content
    output_docx,    \* the container at the output path, NoFile when absent
    issues,         \* the findings handed to the last add_word_comments call
    outcome,        \* "pending", "returned" or the error the last call raised
    paras,          \* check_structure: the document's paragraph texts
    degree_type,    \* check_structure: the degree type
    structure_out,  \* check_structure: the findings returned
    items,          \* check_serial: the caption items of one kind
    kind,           \* check_serial: "Table" or "Figure"
    serial_out,     \* check_serial: the findings returned
    layout,         \* check_formatting: the margins and the sampled formats
    heading_in,     \* find_exact_heading_index: the heading looked up
    result,         \* the value returned by the evaluator or the runner
    pc              \* position of the evaluator run: "start" or "done"

vars == <<input_docx, output_docx, issues, outcome,
          paras, degree_type, structure_out, items, kind, serial_out,
          layout, heading_in, result, pc>>

injectorVars == <<input_docx, output_docx, issues, outcome>>
structureVars == <<paras, degree_type, structure_out>>
serialVars == <<items, kind, serial_out>>
runVars == <<layout, heading_in, result>>

----------------------------------------------------------------------------
(* Bounds of the model *)

\* longest body (in paragraphs) among the base documents
MaxParas == 2
\* longest finding list handed to one add_word_comments call
MaxIssues == 3
\* a call is made only while the comments part stays within this many entries
MaxComments == 5
\* most captions of one kind in a document
MaxCaptions == 3
\* largest caption number
MaxNumber == 3
\* longest document (in paragraphs) handed to the caption evaluators
MaxCaptionParas == 3
\* most paragraphs of main text before the References heading
MaxCitingParas == 2
\* most paragraphs of plain text added to a chapter of a long document
MaxFiller == 40
\* find_exact_heading_index: paragraphs of a document
MaxHeadingParas == 3

----------------------------------------------------------------------------
(* Python and lxml primitives *)

Min(a, b) == IF a < b THEN a ELSE b
Max(a, b) == IF a > b THEN a ELSE b

Digits == <<"0", "1", "2", "3", "4", "5", "6", "7", "8", "9">>

IsDigit(c) == \E d \in 1..10 : Digits[d] = c
DigitVal(c) == (CHOOSE d \in 1..10 : Digits[d] = c) - 1

\* str(n) for n >= 0: the decimal digits of n
RECURSIVE str(_)
str(n) == IF n < 10 THEN <<Digits[n + 1]>>
          ELSE str(n \div 10) \o <<Digits[(n % 10) + 1]>>

\* int(s) is defined when s is a non-empty string of digits
int_ok(s) == Len(s) > 0 /\ \A i \in 1..Len(s) : IsDigit(s[i])

RECURSIVE int(_)
int(s) == IF Len(s) = 0 THEN 0
          ELSE 10 * int(SubSeq(s, 1, Len(s) - 1)) + DigitVal(s[Len(s)])

\* max(xs) over a non-empty sequence of integers
RECURSIVE seq_max(_)
seq_max(xs) == IF Len(xs) = 1 THEN Head(xs) ELSE Max(Head(xs), seq_max(Tail(xs)))

\* max(xs, default=d)
max_default(xs, d) == IF Len(xs) = 0 THEN d ELSE seq_max(xs)

\* list.insert(i, el) and lxml's _Element.insert: 0-based, appends when i >= len
insert(p, i, el) ==
    LET k == Min(i, Len(p))
    IN  SubSeq(p, 1, k) \o <<el>> \o SubSeq(p, k + 1, Len(p))

\* p.index(el): the 0-based position of the child el
index(p, el) == (CHOOSE i \in 1..Len(p) :
                    p[i] = el /\ \A j \in 1..(i - 1) : p[j] # el) - 1

----------------------------------------------------------------------------
(* The OOXML elements the injector reads and writes *)

NoId == <<>>

PPr          == [tag |-> "w:pPr", run |-> 0, id |-> NoId]
TextRun(n)   == [tag |-> "w:r", run |-> n, id |-> NoId]
\* the run synthesized for a paragraph without runs: <w:r><w:t/></w:r>
EmptyRun     == [tag |-> "w:r", run |-> 0, id |-> NoId]
RangeStart(c) == [tag |-> "w:commentRangeStart", run |-> 0, id |-> c]
RangeEnd(c)   == [tag |-> "w:commentRangeEnd", run |-> 0, id |-> c]
\* <w:r><w:commentReference w:id=c/></w:r>
RefRun(c)     == [tag |-> "w:r", run |-> -1, id |-> c]

\* serialised XML: well-formed bytes carry their tree, malformed bytes none
Malformed == [wf |-> FALSE]
tostring(tree) == [wf |-> TRUE, root |-> tree]
fromstring_ok(bytes) == bytes.wf
fromstring(bytes) == bytes.root

\* a path of the file system: no file, or a ZIP container with its parts
NoFile == [exists |-> FALSE]
File(parts) == [exists |-> TRUE, parts |-> parts]

\* a part that is not XML to the injector: its bytes
Raw(b) == [raw |-> b]

DocName == "word/document.xml"
RelsName == "word/_rels/document.xml.rels"
comments_name == "word/comments.xml"

RelNs == "http://schemas.openxmlformats.org/officeDocument/2006/relationships"
\* a relationship Type is its URI split at "/" after the namespace
CommentsType == <<RelNs, "comments">>

\* r.get("Type", "").endswith("/comments")
endswith_comments(type) == Len(type) >= 2 /\ type[Len(type)] = "comments"

rId(n) == <<"r", "I", "d">> \o str(n)

\* re.match(r"rId(\d+)", rid): the digits matched after the prefix, <<>> when
\* the expression does not match
RECURSIVE leading_digits(_)
leading_digits(s) ==
    IF Len(s) = 0 \/ ~IsDigit(Head(s)) THEN <<>>
    ELSE <<Head(s)>> \o leading_digits(Tail(s))

rid_match(rid) ==
    IF Len(rid) >= 3 /\ SubSeq(rid, 1, 3) = <<"r", "I", "d">>
    THEN leading_digits(SubSeq(rid, 4, Len(rid)))
    ELSE <<>>

----------------------------------------------------------------------------
(* add_word_comments, src/Checker.py 684-787 *)

make_comment_text(iss) ==
    <<"[", iss.severity, "] ", iss.rule_id, "\n", iss.message,
      "\nEvidence: ", iss.evidence, "\nWhere: ", iss.location_hint>>

\* a variant that keeps only the last issue of a paragraph: by_p[k] = [v]
setdefault_overwrite(d, k, v) ==
    IF \E i \in 1..Len(d) : d[i].pidx = k
    THEN [i \in 1..Len(d) |->
             IF d[i].pidx = k THEN [d[i] EXCEPT !.plist = <<v>>] ELSE d[i]]
    ELSE Append(d, [pidx |-> k, plist |-> <<v>>])

\* line 692: by_p.setdefault(k, []).append(v), on a dict kept in insertion order
setdefault_append(d, k, v) ==
    IF \E i \in 1..Len(d) : d[i].pidx = k
    THEN [i \in 1..Len(d) |->
             IF d[i].pidx = k THEN [d[i] EXCEPT !.plist = Append(@, v)] ELSE d[i]]
    ELSE Append(d, [pidx |-> k, plist |-> <<v>>])

\* lines 690-692: group the issues by clamped paragraph index
RECURSIVE by_p(_)
by_p(iss) ==
    IF Len(iss) = 0 THEN <<>>
    ELSE LET last == iss[Len(iss)]
         IN  setdefault_append(by_p(SubSeq(iss, 1, Len(iss) - 1)),
                               Max(0, last.anchor_paragraph_index), last)

\* line 705: comments_xml.xpath("//w:comment/@w:id")
existing_ids(comments_xml) == [i \in 1..Len(comments_xml) |-> comments_xml[i].id]

\* a variant that numbers from the count of comments: len(existing_ids)
next_id_by_count(comments_xml) == Len(comments_xml)

\* line 706: max([int(x) for x in existing_ids], default=-1) + 1
next_id_from(comments_xml) ==
    LET ids == existing_ids(comments_xml)
    IN  max_default([i \in 1..Len(ids) |-> int(ids[i])], -1) + 1

\* line 713
has_comments_rel(rels) == \E i \in 1..Len(rels) : endswith_comments(rels[i].Type)

\* lines 716-721
existing_rids(rels) ==
    LET matched == SelectSeq(rels, LAMBDA r : rid_match(r.Id) # <<>>)
    IN  [i \in 1..Len(matched) |-> int(rid_match(matched[i].Id))]

\* a variant that numbers from the count of relationships: rId{len(rels) + 1}
new_rid_by_count(rels) == rId(Len(rels) + 1)

\* line 722
new_rid(rels) ==
    LET rids == existing_rids(rels)
    IN  rId(IF Len(rids) > 0 THEN seq_max(rids) + 1 ELSE 1)

\* lines 712-726
ensure_comments_rel(rels) ==
    IF has_comments_rel(rels) THEN rels
    ELSE Append(rels, [Id |-> new_rid(rels), Type |-> CommentsType,
                       Target |-> "comments.xml"])

\* p.xpath("./w:r")
runs_of(p) == SelectSeq(p, LAMBDA e : e.tag = "w:r")

\* a variant that puts the reference run before the range end
anchor_comment_reference_first(p, first_r, cid) ==
    LET start == RangeStart(cid)
        end == RangeEnd(cid)
        ref_run == RefRun(cid)
        p1 == insert(p, index(p, first_r), start)
        p2 == insert(p1, index(p1, first_r) + 2, end)
    IN  insert(p2, index(p2, end), ref_run)

\* lines 776-778: the three inserts that anchor comment cid at first_r
anchor_comment(p, first_r, cid) ==
    LET start == RangeStart(cid)
        end == RangeEnd(cid)
        ref_run == RefRun(cid)
        p1 == insert(p, index(p, first_r), start)
        p2 == insert(p1, index(p1, first_r) + 2, end)
    IN  insert(p2, index(p2, end) + 1, ref_run)

\* lines 750-778: one issue of a paragraph's list
add_comment(st, pidx, first_r, iss) ==
    LET cid == str(st.next_id)
        c_el == [id |-> cid, author |-> "Thesis Compliance Checker",
                 initials |-> "TCC", text |-> make_comment_text(iss)]
    IN  [next_id |-> st.next_id + 1,
         comments_xml |-> Append(st.comments_xml, c_el),
         body |-> [st.body EXCEPT ![pidx + 1] = anchor_comment(@, first_r, cid)]]

\* lines 749-778
RECURSIVE add_plist(_, _, _, _)
add_plist(st, pidx, first_r, plist) ==
    IF Len(plist) = 0 THEN st
    ELSE add_plist(add_comment(st, pidx, first_r, Head(plist)),
                   pidx, first_r, Tail(plist))

\* lines 736-747: skip an index past the body, find or create the first run
annotate_paragraph(st, entry) ==
    IF entry.pidx >= Len(st.body) THEN st
    ELSE LET p == st.body[entry.pidx + 1]
             runs == runs_of(p)
         IN  IF Len(runs) > 0
             THEN add_plist(st, entry.pidx, runs[1], entry.plist)
             ELSE add_plist([st EXCEPT !.body[entry.pidx + 1] = Append(p, EmptyRun)],
                            entry.pidx, EmptyRun, entry.plist)

\* lines 735-778
RECURSIVE insert_comments(_, _)
insert_comments(st, groups) ==
    IF Len(groups) = 0 THEN st
    ELSE insert_comments(annotate_paragraph(st, Head(groups)), Tail(groups))

\* lines 697-709: the first statement that raises, "none" when all parts parse
parse_error(files) ==
    IF DocName \notin DOMAIN files THEN "KeyError"
    ELSE IF ~fromstring_ok(files[DocName]) THEN "XMLSyntaxError"
    ELSE IF RelsName \notin DOMAIN files THEN "KeyError"
    ELSE IF ~fromstring_ok(files[RelsName]) THEN "XMLSyntaxError"
    ELSE IF comments_name \notin DOMAIN files THEN "none"
    ELSE IF ~fromstring_ok(files[comments_name]) THEN "XMLSyntaxError"
    ELSE IF \E i \in 1..Len(fromstring(files[comments_name])) :
                ~int_ok(fromstring(files[comments_name])[i].id) THEN "ValueError"
    ELSE "none"

\* lines 697-783: the parts dict after the edit, for a container that parses
edited_files(files, iss) ==
    LET doc_xml == fromstring(files[DocName])
        rels_xml == fromstring(files[RelsName])
        had == comments_name \in DOMAIN files
        comments_xml == IF had THEN fromstring(files[comments_name]) ELSE <<>>
        next_id == IF had THEN next_id_from(comments_xml) ELSE 0
        st == insert_comments([next_id |-> next_id, comments_xml |-> comments_xml,
                               body |-> doc_xml], by_p(iss))
    IN  [n \in DOMAIN files \cup {comments_name} |->
            IF n = DocName THEN tostring(st.body)
            ELSE IF n = RelsName THEN tostring(ensure_comments_rel(rels_xml))
            ELSE IF n = comments_name THEN tostring(st.comments_xml)
            ELSE files[n]]

\* a variant that writes only the parts it edited
write_edited_only(files) ==
    File([n \in {DocName, RelsName, comments_name} |-> files[n]])

\* lines 785-787: every entry of files is written to the output container
write_container(files) == File(files)

\* a variant that opens the output container before it parses the input
add_word_comments_open_first(files, iss) ==
    LET err == parse_error(files)
    IN  IF err # "none" THEN [raised |-> err, written |-> File(<<>>)]
        ELSE [raised |-> "none", written |-> write_container(edited_files(files, iss))]

\* the whole call: what it raises and what it leaves at the output path
add_word_comments(files, iss) ==
    LET err == parse_error(files)
    IN  IF err # "none" THEN [raised |-> err, written |-> NoFile]
        ELSE [raised |-> "none", written |-> write_container(edited_files(files, iss))]

----------------------------------------------------------------------------
(* The containers and finding lists the injector is run on *)

Empty == <<>>
PPrOnly == <<PPr>>
One == <<TextRun(1)>>
Two == <<PPr, TextRun(1), TextRun(2)>>
Three == <<TextRun(1), TextRun(2), TextRun(3)>>

BodyFamily ==
    { <<>>, <<One>>, <<Two>>, <<Empty>>,
      <<One, Two>>, <<Three, PPrOnly>>,
      <<Two, One, Empty>>, <<PPrOnly, Three, Two>>, <<One, Two, Three, Empty>> }

BaseBodies == {b \in BodyFamily : Len(b) <= MaxParas}

Rel(id, type, target) == [Id |-> id, Type |-> <<RelNs, type>>, Target |-> target]

BaseRels ==
    { <<>>,
      <<Rel(rId(9), "styles", "styles.xml"), Rel(rId(3), "settings", "settings.xml")>>,
      <<Rel(<<"R", "7">>, "styles", "styles.xml")>>,
      <<Rel(rId(1), "styles", "styles.xml"), Rel(rId(2), "comments", "comments.xml")>> }

\* a comment left by a human reviewer, anchored on the only run of a paragraph
ReviewerComment(c) ==
    [id |-> c, author |-> "Reviewer", initials |-> "RV", text |-> <<"Please check.">>]
Reviewed(c) == <<RangeStart(c), TextRun(1), RangeEnd(c), RefRun(c)>>

Package(body, rels) ==
    ("[Content_Types].xml" :> Raw("types")) @@ ("word/styles.xml" :> Raw("styles"))
    @@ (DocName :> tostring(body)) @@ (RelsName :> tostring(rels))

WellFormedBases ==
    { Package(b, r) : b \in BaseBodies, r \in BaseRels }
    \cup { Package(b, r) @@ (comments_name :> tostring(<<>>)) :
             b \in BaseBodies, r \in BaseRels }
    \cup { Package(<<Reviewed(str(8))>> \o b, r)
             @@ (comments_name :> tostring(<<ReviewerComment(str(8))>>)) :
             b \in {x \in BaseBodies : Len(x) < MaxParas},
             r \in {x \in BaseRels : has_comments_rel(x)} }

Without(files, name) == [n \in DOMAIN files \ {name} |-> files[n]]
Broken(files, name) == [n \in DOMAIN files |-> IF n = name THEN Malformed ELSE files[n]]

BrokenBases ==
    UNION { { Without(f, DocName), Without(f, RelsName),
              Broken(f, DocName), Broken(f, RelsName) } : f \in WellFormedBases }
    \cup { Broken(f, comments_name) :
             f \in {g \in WellFormedBases : comments_name \in DOMAIN g} }

Issue(rule_id, severity, message, evidence, location_hint, anchor) ==
    [rule_id |-> rule_id, severity |-> severity, message |-> message,
     evidence |-> evidence, location_hint |-> location_hint,
     anchor_paragraph_index |-> anchor]

\* findings below the body, on its first two paragraphs and past its longest
IssuePool ==
    { Issue("ETH-SIM-001", "Medium", "No mention of Similarity Index Report found.",
            "Did not find 'Turnitin'.", "Document-wide", -1),
      Issue("STR-FM-001", "High", "Missing required front matter section.",
            "Heading not found exactly.", "Front matter", 0),
      Issue("APA-CAP-001", "High", "Non-APA caption numbering detected.",
            "Table 2.1", "Paragraph 2", 1),
      Issue("CH1-TPL-001", "High", "Chapter One is missing expected sub-headings.",
            "Missing", "Chapter One", MaxParas) }

IssueLists == UNION { [1..n -> IssuePool] : n \in 0..MaxIssues }

\* the comments part of a container, <<>> when absent or unreadable
CommentsOf(files) ==
    IF comments_name \in DOMAIN files /\ fromstring_ok(files[comments_name])
    THEN fromstring(files[comments_name]) ELSE <<>>

\* values of the variables a specification does not use
IdleInjector ==
    /\ input_docx = NoFile /\ output_docx = NoFile
    /\ issues = <<>> /\ outcome = "idle"
IdleStructure == paras = <<>> /\ degree_type = "" /\ structure_out = <<>>
IdleSerial == items = <<>> /\ kind = "" /\ serial_out = <<>>
IdleRun == layout = <<>> /\ heading_in = <<>> /\ result = <<>>

----------------------------------------------------------------------------
(* Specification of the injector: add_word_comments run any number of      *)
(* times, each run on the output of the one before                          *)

Init ==
    /\ input_docx \in {File(f) : f \in WellFormedBases \cup BrokenBases}
    /\ output_docx = NoFile
    /\ issues = <<>>
    /\ outcome = "pending"
    /\ IdleStructure /\ IdleSerial /\ IdleRun /\ pc = "injector"

\* add_word_comments(input_docx, issues, output_docx)
AddWordComments ==
    /\ outcome = "pending"
    /\ \E iss \in IssueLists :
          /\ Len(CommentsOf(input_docx.parts)) + Len(iss) <= MaxComments
          /\ LET r == add_word_comments(input_docx.parts, iss)
             IN  /\ issues' = iss
                 /\ outcome' = IF r.raised = "none" THEN "returned" ELSE r.raised
                 /\ output_docx' = r.written
    /\ UNCHANGED <<input_docx, structureVars, serialVars, runVars, pc>>

\* the caller takes the annotated container as the input of the next run
Reinject ==
    /\ outcome = "returned"
    /\ input_docx' = output_docx
    /\ output_docx' = NoFile
    /\ issues' = <<>>
    /\ outcome' = "pending"
    /\ UNCHANGED <<structureVars, serialVars, runVars, pc>>

Next == AddWordComments \/ Reinject

Spec == Init /\ [][Next]_vars

----------------------------------------------------------------------------
(* Properties of the injector *)

Range(seq) == {seq[i] : i \in 1..Len(seq)}
Pos(p, el) == CHOOSE k \in 1..Len(p) : p[k] = el
Distinct(seq) == \A i, j \in 1..Len(seq) : i # j => seq[i] # seq[j]
SetMax(S) == CHOOSE m \in S : \A x \in S : x <= m

Called == outcome \notin {"pending", "idle"}
Returned == outcome = "returned"

InBody == fromstring(input_docx.parts[DocName])
OutBody == fromstring(output_docx.parts[DocName])
InRels == fromstring(input_docx.parts[RelsName])
OutRels == fromstring(output_docx.parts[RelsName])
InComments == CommentsOf(input_docx.parts)
OutComments == fromstring(output_docx.parts[comments_name])

IdsOf(comments) == {comments[i].id : i \in 1..Len(comments)}
NewIds == IdsOf(OutComments) \ IdsOf(InComments)

\* the paragraph index (1-based) an issue is anchored on
Clamped(iss) == IF iss.anchor_paragraph_index < 0 THEN 1
                ELSE iss.anchor_paragraph_index + 1
Anchored == {i \in 1..Len(issues) : Clamped(issues[i]) <= Len(InBody)}

StartsIn(p) == Cardinality({k \in 1..Len(p) : p[k].tag = "w:commentRangeStart"})

\* the first run a comment on paragraph j is to span
FirstRun(j) == IF Len(runs_of(InBody[j])) > 0 THEN runs_of(InBody[j])[1] ELSE EmptyRun

\* C1: every comment injected by the call spans exactly the first run of its
\* paragraph: its range start lies before that run, its range end after it,
\* and no other run the paragraph already had lies between the two markers.
C1_CommentSpansFirstRunOnly ==
    Returned =>
        \A j \in 1..Len(OutBody) : \A c \in NewIds :
            RangeStart(c) \in Range(OutBody[j]) =>
                LET p == OutBody[j]
                    s == Pos(p, RangeStart(c))
                    e == Pos(p, RangeEnd(c))
                    f == Pos(p, FirstRun(j))
                IN  /\ RangeEnd(c) \in Range(p)
                    /\ s < f /\ f < e
                    /\ \A k \in (s + 1)..(e - 1) :
                          (p[k].tag = "w:r" /\ p[k] \in Range(InBody[j])) => k = f

\* C2: a call on a readable container returns without error and adds exactly
\* one comment entry per finding whose clamped index is inside the body, in
\* the paragraph of that index (paragraph 0 for a negative index); findings
\* past the body add nothing; k findings on one paragraph add k entries.
Readable(files) ==
    /\ DocName \in DOMAIN files /\ files[DocName].wf
    /\ RelsName \in DOMAIN files /\ files[RelsName].wf
    /\ comments_name \in DOMAIN files => files[comments_name].wf

C2_OneCommentPerAnchoredFinding ==
    (Called /\ Readable(input_docx.parts)) =>
        /\ Returned
        /\ Len(OutComments) = Len(InComments) + Cardinality(Anchored)
        /\ Len(OutBody) = Len(InBody)
        /\ \A j \in 1..Len(InBody) :
              StartsIn(OutBody[j]) =
                  StartsIn(InBody[j])
                  + Cardinality({i \in Anchored : Clamped(issues[i]) = j})

C2_Witness ==
    /\ Returned /\ Len(issues) = 3 /\ Len(InBody) = 1
    /\ issues[1].anchor_paragraph_index = 0
    /\ issues[2].anchor_paragraph_index = 1
    /\ issues[3].anchor_paragraph_index = -1
    /\ Len(OutComments) = Len(InComments) + 2

\* C3: in every container of a chain of runs the comment identifiers are
\* pairwise distinct; the identifiers a run assigns are consecutive from the
\* largest identifier already present plus one (from 0 when there is none);
\* and the entry and the anchors of every earlier comment are as before.
SpanOf(body, c) ==
    LET j == CHOOSE k \in 1..Len(body) : RangeStart(c) \in Range(body[k])
        p == body[j]
    IN  [para |-> j,
         endPara |-> CHOOSE k \in 1..Len(body) : RangeEnd(c) \in Range(body[k]),
         refPara |-> CHOOSE k \in 1..Len(body) : RefRun(c) \in Range(body[k]),
         spanned |-> {p[k] : k \in (Pos(p, RangeStart(c)) + 1)..(Pos(p, RangeEnd(c)) - 1)}]

C3_IdentifiersUniqueAndStable ==
    /\ (input_docx.exists /\ outcome # "idle") =>
          Distinct([i \in 1..Len(InComments) |-> InComments[i].id])
    /\ Returned =>
          LET old == InComments
              new == OutComments
              first == IF old = <<>> THEN 0
                       ELSE SetMax({int(old[i].id) : i \in 1..Len(old)}) + 1
          IN  /\ Distinct([i \in 1..Len(new) |-> new[i].id])
              /\ Len(new) >= Len(old)
              /\ \A i \in 1..Len(old) : new[i] = old[i]
              /\ \A i \in 1..(Len(new) - Len(old)) :
                    new[Len(old) + i].id = str(first + i - 1)
              /\ \A i \in 1..Len(old) :
                    LET was == SpanOf(InBody, old[i].id)
                        now == SpanOf(OutBody, old[i].id)
                    IN  /\ now.para = was.para
                        /\ now.endPara = was.endPara
                        /\ now.refPara = was.refPara
                        /\ now.spanned \cap Range(InBody[was.para]) = was.spanned

C3_Witness ==
    /\ Returned
    /\ Len(InComments) = 2 /\ InComments[1].id = str(8) /\ InComments[2].id = str(9)
    /\ Len(OutComments) = 4 /\ OutComments[4].id = str(11)

\* C4: after a call the relationships part holds a comments relationship; a
\* missing one is created once, with Id rId<largest numeric rId + 1> (rId1
\* when there is no numeric rId), an Id no relationship had; an existing one
\* is kept and none is added.
IsCommentsRel(r) == r.Type = CommentsType
NumericRids(rels) == {n \in 0..99 : \E i \in 1..Len(rels) : rels[i].Id = rId(n)}

C4_CommentsRelationship ==
    Returned =>
        LET n == Len(InRels)
            had == \E i \in 1..n : IsCommentsRel(InRels[i])
            nums == NumericRids(InRels)
        IN  /\ Cardinality({i \in 1..Len(OutRels) : IsCommentsRel(OutRels[i])}) = 1
            /\ had => OutRels = InRels
            /\ ~had =>
                  /\ Len(OutRels) = n + 1
                  /\ SubSeq(OutRels, 1, n) = InRels
                  /\ IsCommentsRel(OutRels[n + 1])
                  /\ OutRels[n + 1].Id = rId(IF nums = {} THEN 1 ELSE SetMax(nums) + 1)
                  /\ \A i \in 1..n : InRels[i].Id # OutRels[n + 1].Id

C4_Witness ==
    /\ Returned
    /\ Len(InRels) = 2 /\ InRels[1].Id = rId(9)
    /\ Len(OutRels) = 3 /\ OutRels[3].Id = rId(10)

\* C5: the output container holds the input's parts plus word/comments.xml
\* and nothing else, and every part other than the document, its
\* relationships and the comments part has the content it had in the input.
EditedParts == {DocName, RelsName, comments_name}

C5_OtherPartsCopied ==
    Returned =>
        /\ DOMAIN output_docx.parts = DOMAIN input_docx.parts \cup {comments_name}
        /\ \A n \in DOMAIN input_docx.parts \ EditedParts :
              output_docx.parts[n] = input_docx.parts[n]

C5_Witness ==
    /\ Returned
    /\ comments_name \notin DOMAIN input_docx.parts
    /\ OutBody # InBody
    /\ output_docx.parts["word/styles.xml"] = Raw("styles")

\* C6: a call on a container that lacks the document or its relationships
\* part, or in which one of them or the comments part is not well-formed,
\* ends with an error and leaves no file at the output path.
C6_FailsWithoutOutput ==
    (Called /\ ~Readable(input_docx.parts)) =>
        /\ outcome \in {"KeyError", "XMLSyntaxError"}
        /\ output_docx = NoFile

C6_Witness ==
    /\ outcome = "XMLSyntaxError"
    /\ comments_name \in DOMAIN input_docx.parts
    /\ ~input_docx.parts[comments_name].wf
    /\ output_docx = NoFile

----------------------------------------------------------------------------
(* Paragraph text and the heading lookups, src/Checker.py 76-94              *)
(*                                                                          *)
(* A text is a sequence of tokens: words, and the whitespace between them.  *)

Space == " "
\* the line break between two paragraph texts joined by "\n".join
Newline == "\n"
IsSpace(t) == t \in {" ", "  ", Newline}

\* the words of the documents that have upper-case letters, with str.lower()
LowerCase ==
    ("Declaration" :> "declaration") @@ ("DECLARATION" :> "declaration") @@
    ("Abstract" :> "abstract") @@ ("ABSTRACT" :> "abstract") @@
    ("Acknowledgements" :> "acknowledgements") @@ ("ACKNOWLEDGEMENTS" :> "acknowledgements") @@
    ("Dedication" :> "dedication") @@ ("DEDICATION" :> "dedication") @@
    ("Table" :> "table") @@ ("TABLE" :> "table") @@
    ("Of" :> "of") @@ ("OF" :> "of") @@
    ("Contents" :> "contents") @@ ("CONTENTS" :> "contents") @@
    ("List" :> "list") @@ ("LIST" :> "list") @@
    ("Tables" :> "tables") @@ ("TABLES" :> "tables") @@
    ("Figures" :> "figures") @@ ("FIGURES" :> "figures") @@
    ("Acronyms" :> "acronyms") @@ ("ACRONYMS" :> "acronyms") @@
    ("References" :> "references") @@ ("REFERENCES" :> "references") @@
    ("Appendices" :> "appendices") @@ ("APPENDICES" :> "appendices") @@
    ("Vita" :> "vita") @@ ("VITA" :> "vita") @@
    ("Chapter" :> "chapter") @@ ("CHAPTER" :> "chapter") @@
    ("One" :> "one") @@ ("ONE" :> "one") @@
    ("Two" :> "two") @@ ("TWO" :> "two") @@
    ("Three" :> "three") @@ ("THREE" :> "three") @@
    ("Four" :> "four") @@ ("FOUR" :> "four") @@
    ("Five" :> "five") @@ ("FIVE" :> "five") @@
    ("PhD" :> "phd") @@ ("PHD" :> "phd") @@
    ("MPhil" :> "mphil") @@ ("MPHIL" :> "mphil") @@
    ("Dissertation" :> "dissertation") @@ ("DISSERTATION" :> "dissertation") @@
    ("Figure" :> "figure") @@ ("FIGURE" :> "figure") @@
    ("Smith" :> "smith") @@ ("Jones" :> "jones") @@ ("Mensah" :> "mensah") @@
    ("O'Brien" :> "o'brien") @@ ("O{U+2019}Brien" :> "o{U+2019}brien") @@
    ("Title" :> "title") @@ ("J" :> "j") @@ ("A" :> "a") @@ ("B" :> "b") @@
    ("Ibid" :> "ibid") @@ ("ET" :> "et") @@ ("AL" :> "al") @@
    ("Key" :> "key") @@ ("KEY" :> "key") @@ ("Words" :> "words") @@
    ("WORDS" :> "words") @@ ("Keywords" :> "keywords") @@ ("KEYWORDS" :> "keywords") @@
    ("C" :> "c") @@ ("D" :> "d") @@ ("E" :> "e") @@ ("F" :> "f") @@ ("G" :> "g") @@
    ("Background" :> "background") @@ ("Study" :> "study") @@
    ("Statement" :> "statement") @@ ("Problem" :> "problem") @@
    ("Purpose" :> "purpose") @@ ("Research" :> "research") @@
    ("Objectives" :> "objectives") @@ ("Questions" :> "questions") @@
    ("Significance" :> "significance") @@ ("Limitations" :> "limitations") @@
    ("Delimitation" :> "delimitation") @@ ("Structure" :> "structure") @@
    ("Thesis" :> "thesis") @@ ("Times" :> "times") @@ ("New" :> "new") @@
    ("Roman" :> "roman") @@ ("Arial" :> "arial") @@ ("Turnitin" :> "turnitin") @@
    ("TURNITIN" :> "turnitin") @@ ("Similarity" :> "similarity") @@
    ("Index" :> "index") @@ ("Report" :> "report")

\* str.lower() of one word
lower_word(w) == IF w \in DOMAIN LowerCase THEN LowerCase[w] ELSE w

lower(text) == [i \in 1..Len(text) |-> lower_word(text[i])]

\* str.strip(): leading and trailing whitespace removed
RECURSIVE lstrip(_)
lstrip(text) == IF Len(text) > 0 /\ IsSpace(Head(text)) THEN lstrip(Tail(text)) ELSE text

RECURSIVE rstrip(_)
rstrip(text) == IF Len(text) > 0 /\ IsSpace(text[Len(text)])
                THEN rstrip(SubSeq(text, 1, Len(text) - 1)) ELSE text

strip(text) == rstrip(lstrip(text))

\* Optional[int]: None
None == -1

\* x or d, for an Optional[int] x
or_else(x, d) == IF x = None \/ x = 0 THEN d ELSE x

\* sorted(xs), for a list of integers
RECURSIVE sorted(_)
sorted(xs) ==
    IF Len(xs) = 0 THEN <<>>
    ELSE LET m == CHOOSE i \in 1..Len(xs) : \A j \in 1..Len(xs) : xs[i] <= xs[j]
         IN  <<xs[m]>> \o sorted(SubSeq(xs, 1, m - 1) \o SubSeq(xs, m + 1, Len(xs)))

\* lines 76-77: [(i, p.text.strip())]
iter_paragraphs(doc) == [i \in 1..Len(doc) |-> [idx |-> i - 1, text |-> strip(doc[i])]]

\* the idx of the first pair of ps among the positions hits, None when none
first_hit(ps, hits) ==
    IF hits = {} THEN None
    ELSE ps[CHOOSE i \in hits : \A j \in hits : i <= j].idx

\* lines 80-85
find_exact_heading_index(ps, heading) ==
    LET target == lower(strip(heading))
    IN  first_hit(ps, {i \in 1..Len(ps) : lower(ps[i].text) = target})

\* lines 88-94
find_heading_like(ps, candidates) ==
    LET cand == {lower(candidates[i]) : i \in 1..Len(candidates)}
    IN  first_hit(ps, {i \in 1..Len(ps) : lower(ps[i].text) \in cand})

----------------------------------------------------------------------------
(* check_structure, src/Checker.py 118-214 *)

Declaration == <<"Declaration">>
Abstract == <<"Abstract">>
Acknowledgements == <<"Acknowledgements">>
Dedication == <<"Dedication">>
TableOfContents == <<"Table", Space, "of", Space, "Contents">>
ListOfTables == <<"List", Space, "of", Space, "Tables">>
ListOfFigures == <<"List", Space, "of", Space, "Figures">>
ListOfAcronyms == <<"List", Space, "of", Space, "Acronyms">>
References == <<"References">>
Appendices == <<"Appendices">>
Vita == <<"Vita">>

\* a variant that leaves Table of Contents out
prelim_required_short == <<Declaration, Abstract, Acknowledgements>>

\* line 124
prelim_required == <<Declaration, Abstract, Acknowledgements, TableOfContents>>

\* a variant that puts Dedication before Acknowledgements
order_dedication_early ==
    <<Declaration, Abstract, Dedication, Acknowledgements, TableOfContents>>

\* line 145
order == <<Declaration, Abstract, Acknowledgements, Dedication, TableOfContents>>

\* line 160: [f"Chapter {i}", f"CHAPTER {i}"]
chapter_candidates(i) ==
    <<<<"Chapter", Space, Digits[i + 1]>>, <<"CHAPTER", Space, Digits[i + 1]>>>>

Text(t) == [text |-> t, arg |-> <<>>]
TextWith(t, a) == [text |-> t, arg |-> a]

check_structure(doc, degree) ==
    LET ps == iter_paragraphs(doc)
        indices(h) == find_exact_heading_index(ps, h)
        \* lines 133-142
        missing_prelim == SelectSeq(prelim_required, LAMBDA h : indices(h) = None)
        fm1 == [k \in 1..Len(missing_prelim) |->
                   Issue("STR-FM-001", "High",
                         TextWith("Missing required front matter section: ", missing_prelim[k]),
                         Text("Heading not found exactly."), "Front matter", 0)]
        \* lines 145-157
        existing == SelectSeq(order, LAMBDA h : indices(h) # None)
        idxs == [k \in 1..Len(existing) |-> indices(existing[k])]
        fm2 == IF Len(existing) > 0 /\ idxs # sorted(idxs)
               THEN <<Issue("STR-FM-002", "High",
                            Text("Front matter sections are not in the required order."),
                            TextWith("existing", idxs), "Front matter", idxs[1])>>
               ELSE <<>>
        \* lines 160-179
        ch == [i \in 1..5 |-> find_heading_like(ps, chapter_candidates(i))]
        chs == IF \E i \in 1..5 : ch[i] = None
               THEN <<Issue("STR-CH-001", "High",
                            Text("Default structure expects Chapter One to Chapter Five headings."),
                            TextWith("Detected chapter heading indices", ch),
                            "Main body", or_else(ch[1], 0))>>
               ELSE IF ch # sorted(ch)
               THEN <<Issue("STR-CH-002", "High",
                            Text("Chapters are not ordered sequentially (Chapter 1-5)."),
                            TextWith("Indices", ch), "Main body", ch[1])>>
               ELSE <<>>
        \* lines 182-199
        bm1 == IF indices(References) = None
               THEN <<Issue("STR-BM-001", "High", Text("Missing References section."),
                            Text("Heading 'References' not found."),
                            "Back matter", or_else(ch[5], 0))>>
               ELSE <<>>
        bm2 == IF indices(Appendices) = None
               THEN <<Issue("STR-BM-002", "Medium", Text("Appendices section not found."),
                            Text("Heading 'Appendices' not found."), "Back matter",
                            or_else(indices(References), or_else(ch[5], 0)))>>
               ELSE <<>>
        \* lines 201-212
        phd == IF lower(<<degree>>) = <<"phd">> /\ indices(Vita) = None
               THEN <<Issue("STR-PHD-001", "Medium",
                            Text("PhD theses should include a Vita section."),
                            Text("Heading 'Vita' not found."), "Back matter",
                            or_else(indices(References), or_else(ch[5], 0)))>>
               ELSE <<>>
    IN  fm1 \o fm2 \o chs \o bm1 \o bm2 \o phd

----------------------------------------------------------------------------
(* The documents check_structure is run on *)

UpperWords ==
    {"DECLARATION", "ABSTRACT", "ACKNOWLEDGEMENTS", "DEDICATION", "TABLE", "OF",
     "CONTENTS", "REFERENCES", "APPENDICES", "VITA", "CHAPTER", "ONE", "TWO",
     "THREE", "FOUR", "FIVE"}

\* a heading typed in capitals
Shouted(text) ==
    [i \in 1..Len(text) |->
        IF \E u \in UpperWords : lower_word(u) = lower_word(text[i])
        THEN CHOOSE u \in UpperWords : lower_word(u) = lower_word(text[i])
        ELSE text[i]]

\* a heading typed with blanks around it
Padded(text) == <<"  ">> \o text \o <<Space>>

Styled(style, text) ==
    CASE style = "shouted" -> Shouted(text)
      [] style = "padded" -> Padded(text)
      [] OTHER -> text

NumberWord == <<"One", "Two", "Three", "Four", "Five">>

ChapterHeading(i, form) ==
    IF form = "spelled" THEN <<"Chapter", Space, NumberWord[i]>>
    ELSE <<"Chapter", Space, Digits[i + 1]>>

\* the sequences without repetition over the set S
Arrangements(S) ==
    {a \in UNION {[1..n -> S] : n \in 0..Cardinality(S)} : Distinct(a)}

FrontHeadings == {Declaration, Abstract, Acknowledgements, Dedication, TableOfContents}
FrontParts == Arrangements(FrontHeadings)
ChapterForms == {"numeral", "spelled"}
ChapterParts ==
    {[k \in 1..Len(o) |-> ChapterHeading(o[k], f)] :
        o \in Arrangements(1..5), f \in ChapterForms}
    \cup {[i \in 1..5 |-> ChapterHeading(i, m[i])] : m \in [1..5 -> ChapterForms]}
NumeralChapters == [i \in 1..5 |-> ChapterHeading(i, "numeral")]

BackParts == {<<>>, <<References>>, <<References, Appendices, Vita>>}
\* a heading repeated after the back matter
Repeats == {<<>>, <<Declaration>>}
Styles == {"plain", "shouted", "padded"}
Degrees == {"MPhil", "PhD"}

\* every arrangement of the front matter before five chapters, and every
\* arrangement of the chapters after a front matter in order
Documents ==
    {f \o NumeralChapters \o <<References, Appendices, Vita>> \o r :
        f \in FrontParts, r \in Repeats}
    \cup {order \o c \o b : c \in ChapterParts, b \in BackParts}

----------------------------------------------------------------------------
(* Specification of check_structure on one document *)

InitStructure ==
    /\ \E d \in Documents, st \in Styles :
          paras = [i \in 1..Len(d) |-> Styled(st, d[i])]
    /\ degree_type \in Degrees
    /\ structure_out = <<>>
    /\ pc = "start"
    /\ IdleInjector /\ IdleSerial /\ IdleRun

CheckStructure ==
    /\ pc = "start"
    /\ structure_out' = check_structure(paras, degree_type)
    /\ pc' = "done"
    /\ UNCHANGED <<paras, degree_type, injectorVars, serialVars, runVars>>

NextStructure == CheckStructure

SpecStructure == InitStructure /\ [][NextStructure]_vars

----------------------------------------------------------------------------
(* Properties of check_structure *)

Normal(text) == lower(strip(text))
HeadingAt(h) == {i \in 1..Len(paras) : Normal(paras[i]) = Normal(h)}
Absent(h) == HeadingAt(h) = {}
FirstAt(h) == CHOOSE i \in HeadingAt(h) : \A j \in HeadingAt(h) : i <= j
WithRule(out, rule) == SelectSeq(out, LAMBDA f : f.rule_id = rule)

RequiredFront == {Declaration, Abstract, Acknowledgements, TableOfContents}
MissingFront == {h \in RequiredFront : Absent(h)}

\* C7: check_structure emits exactly one STR-FM-001 finding, of severity
\* High, for each of Declaration, Abstract, Acknowledgements and Table of
\* Contents that has no heading paragraph, naming it, and no other.
C7_OneFindingPerMissingHeading ==
    pc = "done" =>
        LET found == WithRule(structure_out, "STR-FM-001")
        IN  /\ Len(found) = Cardinality(MissingFront)
            /\ \A k \in 1..Len(found) : found[k].severity = "High"
            /\ \A h \in MissingFront :
                  Cardinality({k \in 1..Len(found) : found[k].message.arg = h}) = 1

C7_Witness ==
    /\ pc = "done"
    /\ MissingFront = {Abstract, TableOfContents}
    /\ Len(WithRule(structure_out, "STR-FM-001")) = 2

RequiredOrder == <<Declaration, Abstract, Acknowledgements, Dedication, TableOfContents>>
FrontNotIncreasing ==
    \E a, b \in 1..Len(RequiredOrder) :
        /\ a < b
        /\ ~Absent(RequiredOrder[a]) /\ ~Absent(RequiredOrder[b])
        /\ FirstAt(RequiredOrder[a]) > FirstAt(RequiredOrder[b])

\* C8: check_structure emits one STR-FM-002 finding, of severity High, when
\* the first occurrences of the present front-matter headings, taken in the
\* required order, are not at increasing paragraph indices, and none when
\* they are or when no such heading is present.
C8_OrderFindingIffNotIncreasing ==
    pc = "done" =>
        LET found == WithRule(structure_out, "STR-FM-002")
        IN  /\ Len(found) = IF FrontNotIncreasing THEN 1 ELSE 0
            /\ \A k \in 1..Len(found) : found[k].severity = "High"

C8_Witness ==
    /\ pc = "done"
    /\ Absent(Abstract) /\ Absent(Declaration)
    /\ ~Absent(Dedication) /\ ~Absent(Acknowledgements) /\ ~Absent(TableOfContents)
    /\ FirstAt(Dedication) < FirstAt(Acknowledgements)
    /\ FirstAt(Acknowledgements) < FirstAt(TableOfContents)
    /\ Len(WithRule(structure_out, "STR-FM-002")) = 1

ChapterAt(i) ==
    {p \in 1..Len(paras) :
        Normal(paras[p]) \in {Normal(ChapterHeading(i, "numeral")),
                              Normal(ChapterHeading(i, "spelled"))}}
SpelledAt(i) ==
    {p \in 1..Len(paras) : Normal(paras[p]) = Normal(ChapterHeading(i, "spelled"))}
SpelledInOrder ==
    /\ \A i \in 1..5 : SpelledAt(i) # {}
    /\ \A i \in 1..4 : \A p \in SpelledAt(i), q \in SpelledAt(i + 1) : p < q

\* C9: check_structure takes a chapter heading in its spelled or its numeral
\* form: STR-CH-001 is emitted exactly when one of the chapters one to five
\* has a heading in neither form, and five spelled headings in increasing
\* order get neither STR-CH-001 nor STR-CH-002.
C9_ChaptersInEitherForm ==
    pc = "done" =>
        /\ Len(WithRule(structure_out, "STR-CH-001")) =
              IF \E i \in 1..5 : ChapterAt(i) = {} THEN 1 ELSE 0
        /\ SpelledInOrder =>
              /\ WithRule(structure_out, "STR-CH-001") = <<>>
              /\ WithRule(structure_out, "STR-CH-002") = <<>>

----------------------------------------------------------------------------
(* check_serial, src/Checker.py 514-530 *)

\* a variant that counts from the smallest number: range(min(nums), max(nums) + 1)
expected_from_min(nums) ==
    LET lo == -seq_max([i \in 1..Len(nums) |-> -nums[i]])
    IN  [k \in 1..(seq_max(nums) - lo + 1) |-> lo + k - 1]

\* line 519: list(range(1, max(nums) + 1))
expected_numbers(nums) == [k \in 1..seq_max(nums) |-> k]

\* sorted(S), for a set of integers
RECURSIVE sorted_set(_)
sorted_set(S) ==
    IF S = {} THEN <<>>
    ELSE LET m == CHOOSE x \in S : \A y \in S : x <= y
         IN  <<m>> \o sorted_set(S \ {m})

\* nums.count(n)
count(nums, n) == Cardinality({i \in 1..Len(nums) : nums[i] = n})

check_serial(its, knd, rule_id) ==
    IF Len(its) = 0 THEN <<>>
    ELSE
    LET nums == [i \in 1..Len(its) |-> its[i].n]
        expected == expected_numbers(nums)
        missing == SelectSeq(expected, LAMBDA n : \A i \in 1..Len(nums) : nums[i] # n)
        dupes == sorted_set({nums[i] : i \in {j \in 1..Len(nums) : count(nums, nums[j]) > 1}})
        lowest == -seq_max([i \in 1..Len(nums) |-> -nums[i]])
        start == IF lowest # 1
                 THEN <<Issue(rule_id, "High",
                              TextWith(<<knd, " numbering must start at 1.">>, <<>>),
                              nums, "Captions", its[1].pidx)>>
                 ELSE <<>>
        gaps == IF Len(missing) > 0
                THEN <<Issue(rule_id, "High",
                             TextWith(<<"Missing ", knd, " numbers: ">>, missing),
                             nums, "Captions", its[1].pidx)>>
                ELSE <<>>
        again == IF Len(dupes) > 0
                 THEN <<Issue(rule_id, "High",
                              TextWith(<<"Duplicate ", knd, " numbers: ">>, dupes),
                              nums, "Captions", its[1].pidx)>>
                 ELSE <<>>
    IN  start \o gaps \o again

----------------------------------------------------------------------------
(* Specification of check_serial on the captions of one kind *)

CaptionNumbers == UNION {[1..n -> 0..MaxNumber] : n \in 0..MaxCaptions}

\* the item detect_table_figure_labels makes of caption n at paragraph pidx
Caption(knd, n, pidx) == [n |-> n, pidx |-> pidx, label |-> <<knd, Space>> \o str(n)]

SerialRule(knd) == IF knd = "Table" THEN "APA-TBL-001" ELSE "APA-FIG-001"

InitSerial ==
    /\ kind \in {"Table", "Figure"}
    /\ \E nums \in CaptionNumbers :
          items = [i \in 1..Len(nums) |-> Caption(kind, nums[i], 2 * i)]
    /\ serial_out = <<>>
    /\ pc = "start"
    /\ IdleInjector /\ IdleStructure /\ IdleRun

CheckSerial ==
    /\ pc = "start"
    /\ serial_out' = check_serial(items, kind, SerialRule(kind))
    /\ pc' = "done"
    /\ UNCHANGED <<items, kind, injectorVars, structureVars, runVars>>

NextSerial == CheckSerial

SpecSerial == InitSerial /\ [][NextSerial]_vars

----------------------------------------------------------------------------
(* Properties of check_serial *)

Numbers == [i \in 1..Len(items) |-> items[i].n]
WithText(out, text) == SelectSeq(out, LAMBDA f : f.message.text = text)
Lists(f, S) == Range(f.message.arg) = S /\ Len(f.message.arg) = Cardinality(S)

Smallest == CHOOSE m \in Range(Numbers) : \A n \in Range(Numbers) : m <= n
Gaps == {k \in 1..MaxNumber : k \notin Range(Numbers) /\ \E n \in Range(Numbers) : k < n}
Repeated == {n \in Range(Numbers) : \E i, j \in 1..Len(Numbers) :
                                       i # j /\ Numbers[i] = n /\ Numbers[j] = n}

\* C10: for a non-empty list of caption numbers check_serial emits the
\* "must start at 1" finding exactly when the smallest number is not 1, the
\* "missing numbers" finding exactly when an integer of 1..max does not occur,
\* listing those integers, and the "duplicate numbers" finding exactly when a
\* number occurs more than once, listing those numbers; for an empty list it
\* emits nothing. The captions 1, 3, 3 give missing [2] and duplicate [3] only.
C10_SerialFindings ==
    pc = "done" =>
        LET start == WithText(serial_out, <<kind, " numbering must start at 1.">>)
            missing == WithText(serial_out, <<"Missing ", kind, " numbers: ">>)
            dupes == WithText(serial_out, <<"Duplicate ", kind, " numbers: ">>)
        IN  /\ Len(items) = 0 => serial_out = <<>>
            /\ Len(items) > 0 =>
                  /\ Len(start) = IF Smallest # 1 THEN 1 ELSE 0
                  /\ Len(missing) = IF Gaps # {} THEN 1 ELSE 0
                  /\ \A k \in 1..Len(missing) : Lists(missing[k], Gaps)
                  /\ Len(dupes) = IF Repeated # {} THEN 1 ELSE 0
                  /\ \A k \in 1..Len(dupes) : Lists(dupes[k], Repeated)
                  /\ Len(serial_out) = Len(start) + Len(missing) + Len(dupes)
                  /\ \A k \in 1..Len(serial_out) : serial_out[k].severity = "High"
            /\ Numbers = <<1, 3, 3>> =>
                  /\ Len(serial_out) = 2
                  /\ serial_out[1].message = TextWith(<<"Missing ", kind, " numbers: ">>, <<2>>)
                  /\ serial_out[2].message = TextWith(<<"Duplicate ", kind, " numbers: ">>, <<3>>)

C10_Witness ==
    /\ pc = "done"
    /\ Numbers = <<1, 3, 3>>
    /\ Len(serial_out) = 2

----------------------------------------------------------------------------
(* detect_table_figure_labels and check_lists, src/Checker.py 61-65, 493-548 *)
(*                                                                          *)
(* A caption text is a sequence of tokens: the keyword, whitespace, single  *)
(* digits, "." and the words of a title.                                    *)

\* what follows the whitespace after a leading keyword, <<"?">> when the text
\* does not begin with the keyword and whitespace: ^\s*keyword\s+ (IGNORECASE)
after_keyword(text, keyword) ==
    LET t == lstrip(text)
    IN  IF Len(t) >= 2 /\ lower_word(t[1]) = lower_word(keyword) /\ IsSpace(t[2])
        THEN lstrip(Tail(t)) ELSE <<"?">>

\* what follows the digits a text begins with
after_digits(text) == SubSeq(text, Len(leading_digits(text)) + 1, Len(text))

\* keyword\s+(\d+)\s*$: group 1, <<>> when the expression does not match
label_match(text, keyword) ==
    LET t == after_keyword(text, keyword)
    IN  IF lstrip(after_digits(t)) = <<>> THEN leading_digits(t) ELSE <<>>

\* line 61
APA_TABLE_LABEL_RE(text) == label_match(text, "Table")
\* line 62
APA_FIGURE_LABEL_RE(text) == label_match(text, "Figure")

\* the number of leading groups \.\d+ of a text
RECURSIVE dotted_groups(_)
dotted_groups(t) ==
    IF Len(t) >= 2 /\ t[1] = "." /\ IsDigit(t[2])
    THEN 1 + dotted_groups(after_digits(Tail(t))) ELSE 0

\* line 64: ^\s*(Table|Figure)\s+\d+\.\d+
BAD_DECIMAL_RE(text) ==
    \E keyword \in {"Table", "Figure"} :
        LET t == after_keyword(text, keyword)
            rest == after_digits(t)
        IN  /\ leading_digits(t) # <<>>
            /\ Len(rest) >= 2 /\ rest[1] = "." /\ IsDigit(rest[2])

\* line 65: ^\s*(Table|Figure)\s+\d+(\.\d+)+
BAD_CHAPTER_STYLE_RE(text) ==
    \E keyword \in {"Table", "Figure"} :
        LET t == after_keyword(text, keyword)
        IN  leading_digits(t) # <<>> /\ dotted_groups(after_digits(t)) >= 1

\* lines 493-511
detect_table_figure_labels(doc) ==
    LET ps == SelectSeq(iter_paragraphs(doc), LAMBDA p : p.text # <<>>)
        is_bad(p) == BAD_DECIMAL_RE(p.text) \/ BAD_CHAPTER_STYLE_RE(p.text)
        is_table(p) == ~is_bad(p) /\ APA_TABLE_LABEL_RE(p.text) # <<>>
        is_figure(p) == ~is_bad(p) /\ ~is_table(p) /\ APA_FIGURE_LABEL_RE(p.text) # <<>>
        tables == SelectSeq(ps, is_table)
        figures == SelectSeq(ps, is_figure)
        bad == SelectSeq(ps, is_bad)
    IN  [tables |-> [k \in 1..Len(tables) |->
                        LET g == APA_TABLE_LABEL_RE(tables[k].text)
                        IN  [n |-> int(g), pidx |-> tables[k].idx,
                             label |-> <<"Table", Space>> \o g]],
         figures |-> [k \in 1..Len(figures) |->
                        LET g == APA_FIGURE_LABEL_RE(figures[k].text)
                        IN  [n |-> int(g), pidx |-> figures[k].idx,
                             label |-> <<"Figure", Space>> \o g]],
         bad |-> [k \in 1..Len(bad) |-> [pidx |-> bad[k].idx, text |-> bad[k].text]]]

\* lines 540-543
list_presence(doc, detected) ==
    LET ps == iter_paragraphs(doc)
        lot == find_exact_heading_index(ps, ListOfTables)
        lof == find_exact_heading_index(ps, ListOfFigures)
    IN  (IF Len(detected.tables) > 0 /\ lot = None
         THEN <<Issue("APA-LOT-001", "High",
                      Text("List of Tables is missing but tables are present."),
                      TextWith(" tables detected.", Len(detected.tables)),
                      "Front matter", 0)>>
         ELSE <<>>)
        \o
        (IF Len(detected.figures) > 0 /\ lof = None
         THEN <<Issue("APA-LOF-001", "High",
                      Text("List of Figures is missing but figures are present."),
                      TextWith(" figures detected.", Len(detected.figures)),
                      "Front matter", 0)>>
         ELSE <<>>)

\* lines 545-546, for one caption of detected["bad"]
bad_caption(b) ==
    Issue("APA-CAP-001", "High", Text("Non-APA caption numbering detected."),
          Text(b.text), TextWith("Paragraph ", b.pidx + 1), b.pidx)

\* a variant that reports the first non-compliant caption only
check_lists_first_bad(doc, detected) ==
    list_presence(doc, detected)
    \o [k \in 1..Min(1, Len(detected.bad)) |-> bad_caption(detected.bad[k])]

\* lines 533-548
check_lists(doc, detected) ==
    list_presence(doc, detected)
    \o [k \in 1..Len(detected.bad) |-> bad_caption(detected.bad[k])]

\* run_checks, lines 810-813: the caption evaluators on one document
check_captions(doc) ==
    LET detected == detect_table_figure_labels(doc)
    IN  [detected |-> detected,
         issues |-> check_serial(detected.tables, "Table", "APA-TBL-001")
                    \o check_serial(detected.figures, "Figure", "APA-FIG-001")
                    \o check_lists(doc, detected)]

----------------------------------------------------------------------------
(* Specification of the caption evaluators on one document *)

PlainCaption(knd, n) == <<knd, Space>> \o str(n)
DecimalCaption(knd, a, b) == <<knd, Space>> \o str(a) \o <<".">> \o str(b)

PlainCaptions ==
    {PlainCaption(knd, n) : knd \in {"Table", "Figure"}, n \in 1..2}
    \cup {<<"TABLE", "  ", "1">>}

\* captions numbered by chapter: decimal, with a third level, with a title
DecimalCaptions ==
    { DecimalCaption("Table", 2, 1), DecimalCaption("Figure", 1, 2),
      DecimalCaption("Table", 2, 1) \o <<".", "3">>,
      DecimalCaption("FIGURE", 2, 1) \o <<Space, "results">> }

\* paragraphs that are no captions to the expressions of lines 61-65
OtherParagraphs ==
    { <<"Table", Space, "2", ".">>, <<"Table", Space, "1", Space, "results">>,
      <<>>, ListOfTables, ListOfFigures }

CaptionParagraphs == PlainCaptions \cup DecimalCaptions \cup OtherParagraphs

CaptionDocuments == UNION {[1..n -> CaptionParagraphs] : n \in 0..MaxCaptionParas}

InitCaptions ==
    /\ paras \in CaptionDocuments
    /\ degree_type = "" /\ structure_out = <<>>
    /\ layout = <<>> /\ heading_in = <<>>
    /\ result = <<>>
    /\ pc = "start"
    /\ IdleInjector /\ IdleSerial

CheckCaptions ==
    /\ pc = "start"
    /\ result' = check_captions(paras)
    /\ pc' = "done"
    /\ UNCHANGED <<paras, degree_type, structure_out, layout, heading_in,
                   injectorVars, serialVars>>

NextCaptions == CheckCaptions

SpecCaptions == InitCaptions /\ [][NextCaptions]_vars

----------------------------------------------------------------------------
(* Properties of the caption evaluators *)

DecimalParas == {i \in 1..Len(paras) : strip(paras[i]) \in DecimalCaptions}

\* the document with its chapter-numbered captions blanked
Blanked == [i \in 1..Len(paras) |-> IF i \in DecimalParas THEN <<>> ELSE paras[i]]

NotCaptionRule(out) == SelectSeq(out, LAMBDA f : f.rule_id # "APA-CAP-001")

\* C11: a caption paragraph in chapter-qualified or decimal form gives
\* exactly one APA-CAP-001 finding of severity High anchored at its own
\* paragraph, is in neither the table list nor the figure list, and the
\* serial-numbering and list-presence findings are those of the document
\* without such captions.
C11_DecimalCaptionOnlyNonCompliant ==
    pc = "done" =>
        /\ \A i \in DecimalParas :
              LET own == SelectSeq(result.issues,
                             LAMBDA f : /\ f.rule_id = "APA-CAP-001"
                                        /\ f.anchor_paragraph_index = i - 1)
              IN  /\ Len(own) = 1
                  /\ own[1].severity = "High"
                  /\ own[1].evidence = Text(strip(paras[i]))
                  /\ \A k \in 1..Len(result.detected.tables) :
                        result.detected.tables[k].pidx # i - 1
                  /\ \A k \in 1..Len(result.detected.figures) :
                        result.detected.figures[k].pidx # i - 1
        /\ Len(WithRule(result.issues, "APA-CAP-001")) = Cardinality(DecimalParas)
        /\ NotCaptionRule(result.issues) = NotCaptionRule(check_captions(Blanked).issues)

C11_Witness ==
    /\ pc = "done"
    /\ paras = <<PlainCaption("Table", 1), DecimalCaption("Table", 2, 1),
                 DecimalCaption("Figure", 1, 2)>>
    /\ Len(result.detected.tables) = 1
    /\ Len(result.detected.figures) = 0
    /\ Len(WithRule(result.issues, "APA-CAP-001")) = 2
    /\ Len(WithRule(result.issues, "APA-TBL-001")) = 0

----------------------------------------------------------------------------
(* Text helpers of the reference evaluator, src/Checker.py 97-112           *)
(*                                                                          *)
(* A word with a typographic apostrophe is written with {U+2019} in its     *)
(* place; the dashes U+2013 and U+2014 are the tokens {U+2013}, {U+2014}.   *)

\* "\n".join(texts)
RECURSIVE join(_)
join(texts) ==
    IF Len(texts) = 0 THEN <<>>
    ELSE IF Len(texts) = 1 THEN texts[1]
    ELSE texts[1] \o <<Newline>> \o join(Tail(texts))

\* lines 97-105; end is None or an index
extract_text_between(ps, start, end) ==
    LET within == SelectSeq(ps, LAMBDA p : p.idx >= start /\ (end = None \/ p.idx < end))
    IN  strip(join([k \in 1..Len(within) |-> within[k].text]))

\* line 110: the replacements of the typographic apostrophe and dashes
Typographic ==
    ("O{U+2019}Brien" :> "O'Brien") @@ ("o{U+2019}brien" :> "o'brien") @@
    ("{U+2013}" :> "-") @@ ("{U+2014}" :> "-")

replace_typographic(w) == IF w \in DOMAIN Typographic THEN Typographic[w] ELSE w

\* line 111: re.sub(r"\s+", " ", s)
RECURSIVE collapse(_)
collapse(text) ==
    IF Len(text) = 0 THEN <<>>
    ELSE IF IsSpace(Head(text)) THEN <<Space>> \o collapse(lstrip(text))
    ELSE <<Head(text)>> \o collapse(Tail(text))

\* lines 108-112
normalise(s) ==
    LET t == strip(s)
    IN  lower(collapse([i \in 1..Len(t) |-> replace_typographic(t[i])]))

----------------------------------------------------------------------------
(* Citation keys, src/Checker.py 68-73, 554-586 *)

\* the one-letter words of the documents
Initials == {"J", "A", "B", "C", "D", "E", "F", "G"}
\* the words [A-Z][A-Za-z'-]+ of the documents
Capitalised == {w \in DOMAIN LowerCase : w \notin Initials}
\* the words [a-z][A-Za-z'-]+ of the documents
Uncapitalised ==
    {LowerCase[w] : w \in Capitalised}
    \cup {"see", "et", "al", "ibid", "op", "cit", "results", "of", "the"}

is_name(t) == t \in Capitalised
\* the same expression under re.IGNORECASE
is_name_ignorecase(t) == t \in Capitalised \cup Uncapitalised

\* (\d{4})([a-b])? at the head of t: the year and its suffix, <<>> when the
\* expression does not match
year_match(t, suffixes) ==
    IF Len(t) >= 4 /\ \A i \in 1..4 : IsDigit(t[i])
    THEN SubSeq(t, 1, 4) \o (IF Len(t) >= 5 /\ t[5] \in suffixes THEN <<t[5]>> ELSE <<>>)
    ELSE <<>>

drop(t, n) == SubSeq(t, n + 1, Len(t))
starts_with(t, c) == Len(t) >= 1 /\ t[1] = c

\* line 73, NARRATIVE_RE at position i of text: the year matched after
\* name\s*\(\s* when \s*\) follows it, <<>> when the expression does not match
narrative_year(text, i) ==
    LET open == lstrip(drop(text, i))
        y == year_match(lstrip(drop(open, 1)), {"a", "b"})
        close == lstrip(drop(lstrip(drop(open, 1)), Len(y)))
    IN  IF is_name(text[i]) /\ starts_with(open, "(") /\ starts_with(close, ")")
        THEN y ELSE <<>>

Key(surname, year) == [a |-> surname, y |-> year]

\* the end of the shortest \(([^()]+?)\) that starts at position i, 0 when none
paren_end(text, i) ==
    LET ends == {j \in (i + 2)..Len(text) :
                    /\ text[j] = ")"
                    /\ \A k \in (i + 1)..(j - 1) : text[k] \notin {"(", ")"}}
    IN  IF text[i] = "(" /\ ends # {} THEN CHOOSE j \in ends : \A k \in ends : j <= k
        ELSE 0

\* str.split(sep)
RECURSIVE split(_, _)
split(text, sep) ==
    IF \A i \in 1..Len(text) : text[i] # sep THEN <<text>>
    ELSE LET i == CHOOSE j \in 1..Len(text) :
                      text[j] = sep /\ \A k \in 1..(j - 1) : text[k] # sep
         IN  <<SubSeq(text, 1, i - 1)>> \o split(drop(text, i), sep)

\* line 69-72, APA_AUTHOR_YEAR_RE at position i of chunk c:
\* [group 1, year with suffix], year <<>> when the expression does not match
author_year_at(c, i) ==
    LET rest == drop(c, i)
        amp == lstrip(rest)
        second == lstrip(drop(amp, 1))
        etal == lstrip(rest)
        al == lstrip(drop(etal, 1))
        \* the tokens of c taken by the author part, 0 when it does not match
        taken ==
            IF ~is_name_ignorecase(c[i]) THEN 0
            ELSE IF /\ starts_with(amp, "&") /\ Len(second) >= 1
                    /\ is_name_ignorecase(second[1])
                    /\ starts_with(lstrip(drop(second, 1)), ",")
                 THEN Len(c) - Len(second) + 1
            ELSE IF starts_with(lstrip(rest), ",") THEN i
            ELSE IF /\ Len(rest) >= 1 /\ IsSpace(rest[1])
                    /\ Len(etal) >= 1 /\ lower_word(etal[1]) = "et"
                    /\ Len(etal) >= 2 /\ IsSpace(etal[2])
                    /\ Len(al) >= 2 /\ lower_word(al[1]) = "al" /\ al[2] = "."
                    /\ starts_with(lstrip(drop(al, 2)), ",")
                 THEN Len(c) - Len(al) + 2
            ELSE 0
        after == lstrip(drop(lstrip(drop(c, taken)), 1))
    IN  [lead |-> SubSeq(c, i, taken),
         year |-> IF taken = 0 THEN <<>> ELSE year_match(after, {"a", "b", "A", "B"})]

\* str.replace(old, ""), for a text and a sub-sequence of tokens
RECURSIVE remove(_, _)
remove(text, old) ==
    IF Len(text) < Len(old) THEN text
    ELSE IF SubSeq(text, 1, Len(old)) = old THEN remove(drop(text, Len(old)), old)
    ELSE <<Head(text)>> \o remove(Tail(text), old)

\* lines 578-584, for one chunk: the key, or <<>> when nothing is cited
chunk_key(chunk) ==
    LET c == strip(chunk)
        hits == {i \in 1..Len(c) : author_year_at(c, i).year # <<>>}
    IN  IF hits = {} THEN <<>>
        ELSE LET mm == author_year_at(c, CHOOSE i \in hits : \A j \in hits : i <= j)
                 lead == strip(remove(split(mm.lead, "&")[1], <<"et", Space, "al", ".">>))
             IN  <<Key(normalise(lead), lower(mm.year))>>

RECURSIVE flatten(_)
flatten(lists) == IF Len(lists) = 0 THEN <<>> ELSE Head(lists) \o flatten(Tail(lists))

\* lines 570-586
extract_intext_keys(full_text) ==
    LET named == sorted_set({i \in 1..Len(full_text) : narrative_year(full_text, i) # <<>>})
        opened == sorted_set({i \in 1..Len(full_text) : paren_end(full_text, i) # 0})
        inside(i) == SubSeq(full_text, i + 1, paren_end(full_text, i) - 1)
        chunks(i) == split(inside(i), ";")
    IN  [k \in 1..Len(named) |->
            Key(normalise(<<full_text[named[k]]>>), lower(narrative_year(full_text, named[k])))]
        \o flatten([k \in 1..Len(opened) |->
                       flatten([n \in 1..Len(chunks(opened[k])) |->
                                   chunk_key(chunks(opened[k])[n])])])

\* lines 554-563: the key of a reference entry in a list, the empty list for None
parse_reference_key(entry) ==
    LET t == lstrip(entry)
        years == {i \in 1..Len(entry) :
                     /\ entry[i] = "("
                     /\ LET y == year_match(drop(entry, i), {"a", "b"})
                        IN  y # <<>> /\ starts_with(drop(entry, i + Len(y)), ")")}
        first == CHOOSE i \in years : \A j \in years : i <= j
    IN  IF ~(Len(t) >= 1 /\ is_name(t[1]) /\ starts_with(lstrip(Tail(t)), ","))
        THEN <<>>
        ELSE IF years = {} THEN <<>>
        ELSE <<Key(normalise(<<t[1]>>), lower(year_match(drop(entry, first), {"a", "b"})))>>

\* re.split(r"\n\s*\n", text): the text is cut at every run of whitespace
\* that holds two line breaks
RECURSIVE split_blank_lines(_)
split_blank_lines(text) ==
    LET blank(i, j) == /\ text[i] = Newline /\ text[j] = Newline
                       /\ \A k \in i..j : IsSpace(text[k])
        cuts == {i \in 1..Len(text) : \E j \in (i + 1)..Len(text) : blank(i, j)}
    IN  IF cuts = {} THEN <<text>>
        ELSE LET i == CHOOSE c \in cuts : \A d \in cuts : c <= d
                 j == CHOOSE e \in (i + 1)..Len(text) :
                          blank(i, e) /\ \A f \in (e + 1)..Len(text) : ~blank(i, f)
             IN  <<SubSeq(text, 1, i - 1)>> \o split_blank_lines(drop(text, j))

\* lines 566-567
split_reference_entries(ref_text) ==
    LET pieces == split_blank_lines(ref_text)
    IN  SelectSeq([k \in 1..Len(pieces) |-> strip(pieces[k])], LAMBDA e : e # <<>>)

\* line 591: \[\s*\d+\s*\]
numeric_citation(text) ==
    \E i \in 1..Len(text) :
        LET inside == lstrip(drop(text, i))
        IN  /\ text[i] = "["
            /\ leading_digits(inside) # <<>>
            /\ starts_with(lstrip(after_digits(inside)), "]")

\* line 593: \bibid\.|\bop\. cit\. under re.IGNORECASE
latin_marker(text) ==
    \E i \in 1..Len(text) :
        \/ /\ lower_word(text[i]) = "ibid"
           /\ starts_with(drop(text, i), ".")
        \/ /\ lower_word(text[i]) = "op"
           /\ Len(text) >= i + 4
           /\ text[i + 1] = "." /\ text[i + 2] = Space
           /\ lower_word(text[i + 3]) = "cit" /\ text[i + 4] = "."

\* lines 589-595
check_apa_only_citation_style(full_text) ==
    (IF numeric_citation(full_text)
     THEN <<Issue("APA-CIT-001", "High", Text("Numeric citation style detected."),
                  Text("Found [number]."), "Main text", 0)>>
     ELSE <<>>)
    \o
    (IF latin_marker(full_text)
     THEN <<Issue("APA-CIT-002", "Medium", Text("Non-APA citation marker detected."),
                  Text("Found ibid./op. cit."), "Main text", 0)>>
     ELSE <<>>)

\* d.keys() of the dict built from a list of keys: first occurrences, in order
dict_keys(keys) ==
    LET firsts == SelectSeq([k \in 1..Len(keys) |-> k],
                            LAMBDA k : \A j \in 1..(k - 1) : keys[j] # keys[k])
    IN  [k \in 1..Len(firsts) |-> keys[firsts[k]]]

\* ", ".join(... keys[:10]) + (" ..." if len(keys) > 10 else "")
examples(keys) ==
    [text |-> IF Len(keys) > 10 THEN " ..." ELSE "", arg |-> SubSeq(keys, 1, Min(10, Len(keys)))]

\* lines 598-650
check_references(doc) ==
    LET ps == iter_paragraphs(doc)
        ref_idx == find_exact_heading_index(ps, References)
        main_text == extract_text_between(ps, 0, ref_idx)
        ref_text == extract_text_between(ps, ref_idx + 1, None)
        entries == split_reference_entries(ref_text)
        parsed == [k \in 1..Len(entries) |-> parse_reference_key(entries[k])]
        unparsed == Cardinality({k \in 1..Len(entries) : parsed[k] = <<>>})
        ref_list == flatten(parsed)
        ref_keys == dict_keys(ref_list)
        intext_keys == extract_intext_keys(main_text)
        missing == SelectSeq(intext_keys, LAMBDA k : \A j \in 1..Len(ref_keys) : ref_keys[j] # k)
        uncited == SelectSeq(ref_keys, LAMBDA k : \A j \in 1..Len(intext_keys) : intext_keys[j] # k)
        dups == SelectSeq(ref_keys, LAMBDA k :
                    Cardinality({j \in 1..Len(ref_list) : ref_list[j] = k}) > 1)
    IN  IF ref_idx = None
        THEN <<Issue("APA-REF-001", "High", Text("References section not found."),
                     Text("Heading 'References' not found."), "Back matter", 0)>>
        ELSE IF strip(ref_text) = <<>>
        THEN <<Issue("APA-REF-002", "High", Text("References section is present but empty."),
                     Text("No entries after 'References'."), "References", ref_idx)>>
        ELSE
            (IF unparsed > 0
             THEN <<Issue("APA-REF-003", "Medium",
                          Text("Some reference entries could not be parsed as APA author-date."),
                          TextWith("Unparsed: ", <<unparsed, Len(entries)>>),
                          "References", ref_idx)>>
             ELSE <<>>)
            \o check_apa_only_citation_style(main_text)
            \o (IF Len(intext_keys) = 0
                THEN <<Issue("APA-CIT-010", "High",
                             Text("No APA in-text citations detected in main text."),
                             Text("No matches like (Surname, 2020) or Surname (2020)."),
                             "Main text", 0)>>
                ELSE <<>>)
            \o (IF Len(missing) > 0
                THEN <<Issue("APA-MATCH-001", "High",
                             Text("Some in-text citations have no matching reference entry."),
                             examples(missing), "Citations vs References", ref_idx)>>
                ELSE <<>>)
            \o (IF Len(uncited) > 0
                THEN <<Issue("APA-MATCH-002", "Medium",
                             Text("Some reference entries do not appear to be cited in text."),
                             examples(uncited), "Citations vs References", ref_idx)>>
                ELSE <<>>)
            \o (IF Len(dups) > 0
                THEN <<Issue("APA-REF-010", "Medium",
                             Text("Duplicate references detected (same lead author and year)."),
                             [text |-> "", arg |-> SubSeq(dups, 1, Min(10, Len(dups)))],
                             "References", ref_idx)>>
                ELSE <<>>)

----------------------------------------------------------------------------
(* Specification of check_references on one document *)

Year(n) == str(n)
\* "Surname (2020)"
Narrative(surname, year) == <<surname, Space, "(">> \o Year(year) \o <<")">>
\* "(Surname, 2020)"
Parenthetical(surname, year) == <<"(", surname, ",", Space>> \o Year(year) \o <<")">>
\* "Surname, J. (2020). Title."
Entry(surname, year, suffix) ==
    <<surname, ",", Space, "J", ".", Space, "(">> \o Year(year) \o suffix
    \o <<")", ".", Space, "Title", ".">>

\* "(see Smith et al., 2020; Jones & Smith, 2021a)"
TwoInOneBlock ==
    <<"(", "see", Space, "Smith", Space, "et", Space, "al", ".", ",", Space>> \o Year(2020)
    \o <<";", Space, "Jones", Space, "&", Space, "Smith", ",", Space>> \o Year(2021)
    \o <<"a", ")">>

CitingParagraphs ==
    { Narrative("Smith", 2020), Parenthetical("Smith", 2020),
      Parenthetical("Jones", 2021), Narrative("O{U+2019}Brien", 2019),
      TwoInOneBlock,
      <<"[", "1", "2", "]">>, <<"ibid", ".">>, <<"op", ".", Space, "cit", ".">>,
      <<"results">> }

MainTexts == UNION {[1..n -> CitingParagraphs] : n \in 0..MaxCitingParas}

\* an entry without comma and parentheses
Unparseable == <<"Smith", Space, "J", Space>> \o Year(2020)

\* what follows the References heading: nothing, entries in consecutive
\* paragraphs, entries with an empty paragraph between them
ReferenceBodies ==
    { <<>>, <<<<>>>>,
      <<Entry("Smith", 2020, <<>>)>>,
      <<Entry("Jones", 2021, <<"a">>)>>,
      <<Entry("O'Brien", 2019, <<>>)>>,
      <<Unparseable>>,
      <<Entry("Smith", 2020, <<>>), Entry("Jones", 2021, <<>>)>>,
      <<Entry("Smith", 2020, <<>>), <<>>, Entry("Jones", 2021, <<>>)>>,
      <<Entry("Smith", 2020, <<>>), <<>>, Entry("Smith", 2020, <<>>)>>,
      <<Entry("Smith", 2020, <<>>), <<>>, Unparseable>> }

ReferencesHeadings == {References, Shouted(References), Padded(References)}

CitingDocuments ==
    MainTexts
    \cup {m \o <<h>> \o b : m \in MainTexts, h \in ReferencesHeadings, b \in ReferenceBodies}

InitReferences ==
    /\ paras \in CitingDocuments
    /\ degree_type = "" /\ structure_out = <<>>
    /\ layout = <<>> /\ heading_in = <<>>
    /\ result = <<>>
    /\ pc = "start"
    /\ IdleInjector /\ IdleSerial

CheckReferences ==
    /\ pc = "start"
    /\ result' = check_references(paras)
    /\ pc' = "done"
    /\ UNCHANGED <<paras, degree_type, structure_out, layout, heading_in,
                   injectorVars, serialVars>>

NextReferences == CheckReferences

SpecReferences == InitReferences /\ [][NextReferences]_vars

----------------------------------------------------------------------------
(* Properties of check_references *)

\* the paragraphs before the first References heading
MainParas ==
    IF Absent(References) THEN 1..Len(paras) ELSE 1..(FirstAt(References) - 1)

NumericInMain == \E i \in MainParas : strip(paras[i]) = <<"[", "1", "2", "]">>
LatinInMain ==
    \E i \in MainParas :
        strip(paras[i]) \in {<<"ibid", ".">>, <<"op", ".", Space, "cit", ".">>}

\* C13: whenever the References heading is present, a numeric bracket
\* citation in the text before it gives an APA-CIT-001 finding of severity
\* High and an ibid./op. cit. marker gives an APA-CIT-002 finding of severity
\* Medium, whether the paragraphs after the heading are none, empty,
\* unparseable or well-formed entries.
C13_ForbiddenStylesAlwaysChecked ==
    (pc = "done" /\ ~Absent(References)) =>
        /\ NumericInMain =>
              \E k \in 1..Len(result) :
                  result[k].rule_id = "APA-CIT-001" /\ result[k].severity = "High"
        /\ LatinInMain =>
              \E k \in 1..Len(result) :
                  result[k].rule_id = "APA-CIT-002" /\ result[k].severity = "Medium"

SmithCited == <<Narrative("Smith", 2020), Parenthetical("Smith", 2020)>>
SmithEntry == Entry("Smith", 2020, <<>>)

\* C14: with the single reference entry "Smith, J. (2020). Title." and the
\* in-text occurrences "Smith (2020)" and "(Smith, 2020)" no mismatch finding
\* is emitted; without the in-text occurrences exactly one APA-MATCH-002
\* finding is emitted; without the reference entry, the in-text occurrences
\* kept, exactly one APA-MATCH-001 finding is emitted.
C14_MatchingSymmetricOnKeys ==
    pc = "done" =>
        \A h \in ReferencesHeadings :
            /\ paras = SmithCited \o <<h, SmithEntry>> =>
                  /\ WithRule(result, "APA-MATCH-001") = <<>>
                  /\ WithRule(result, "APA-MATCH-002") = <<>>
            /\ paras = <<h, SmithEntry>> =>
                  /\ WithRule(result, "APA-MATCH-001") = <<>>
                  /\ Len(WithRule(result, "APA-MATCH-002")) = 1
            /\ paras = SmithCited \o <<h>> =>
                  /\ Len(WithRule(result, "APA-MATCH-001")) = 1
                  /\ WithRule(result, "APA-MATCH-002") = <<>>

----------------------------------------------------------------------------
(* check_abstract_keywords_dedication, src/Checker.py 221-321               *)
(*                                                                          *)
(* A key word is spelled letter by letter, one token per character, so that *)
(* the order of str is computed from the code points.                       *)

KeyWordsHeading == <<"Key", Space, "Words">>
Keywords == <<"Keywords">>
ChapterOne == <<"Chapter", Space, "One">>
Chapter1 == <<"Chapter", Space, "1">>

Bullet == "{U+2022}"
Tab == "\t"

\* ord(c) of the characters the key words are made of
CodePoint ==
    (Tab :> 9) @@ (" " :> 32) @@ ("," :> 44) @@ ("-" :> 45) @@
    ("A" :> 65) @@ ("B" :> 66) @@ ("C" :> 67) @@ ("D" :> 68) @@ ("E" :> 69) @@
    ("F" :> 70) @@ ("G" :> 71) @@
    ("a" :> 97) @@ ("b" :> 98) @@ ("c" :> 99) @@ ("d" :> 100) @@ ("e" :> 101) @@
    ("f" :> 102) @@ ("g" :> 103) @@ (Bullet :> 8226)

\* a < b for two str
str_less(a, b) ==
    LET differ == {i \in 1..Min(Len(a), Len(b)) : a[i] # b[i]}
        first == CHOOSE i \in differ : \A j \in differ : i <= j
    IN  IF differ = {} THEN Len(a) < Len(b)
        ELSE CodePoint[a[first]] < CodePoint[b[first]]

\* sorted(xs), for a list of str
RECURSIVE sorted_str(_)
sorted_str(xs) ==
    IF Len(xs) = 0 THEN <<>>
    ELSE LET m == CHOOSE i \in 1..Len(xs) :
                      /\ \A j \in 1..Len(xs) : ~str_less(xs[j], xs[i])
                      /\ \A j \in 1..(i - 1) : str_less(xs[i], xs[j])
         IN  <<xs[m]>> \o sorted_str(SubSeq(xs, 1, m - 1) \o SubSeq(xs, m + 1, Len(xs)))

\* len(text.split())
word_count(text) ==
    Cardinality({i \in 1..Len(text) :
                    ~IsSpace(text[i]) /\ (i = 1 \/ IsSpace(text[i - 1]))})

\* str.strip(chars)
RECURSIVE lstrip_chars(_, _)
lstrip_chars(text, chars) ==
    IF Len(text) > 0 /\ Head(text) \in chars THEN lstrip_chars(Tail(text), chars) ELSE text

RECURSIVE rstrip_chars(_, _)
rstrip_chars(text, chars) ==
    IF Len(text) > 0 /\ text[Len(text)] \in chars
    THEN rstrip_chars(SubSeq(text, 1, Len(text) - 1), chars) ELSE text

strip_chars(text, chars) == rstrip_chars(lstrip_chars(text, chars), chars)

\* lines 255-261 and 302-309: the texts of ps[first .. last - 1] up to the
\* first empty one or the first one of stops
RECURSIVE lines_until(_, _, _, _)
lines_until(ps, first, last, stops) ==
    IF first >= last THEN <<>>
    ELSE LET t == ps[first + 1].text
         IN  IF t = <<>> \/ lower(t) \in stops THEN <<>>
             ELSE <<t>> \o lines_until(ps, first + 1, last, stops)

\* a variant that takes the single line as one term
comma_separated_as_one(line) == <<strip(line)>>

\* line 273: the terms of a comma-separated line
comma_separated(line) ==
    LET parts == split(line, ",")
    IN  SelectSeq([k \in 1..Len(parts) |-> strip(parts[k])], LAMBDA t : t # <<>>)

\* lines 231-249
check_abstract(ps) ==
    LET abstract_idx == find_exact_heading_index(ps, Abstract)
        after == {i \in { find_exact_heading_index(ps, KeyWordsHeading),
                          find_exact_heading_index(ps, Acknowledgements),
                          find_exact_heading_index(ps, Dedication),
                          find_exact_heading_index(ps, TableOfContents) } :
                     i # None /\ i > abstract_idx}
        next_idx == IF after = {} THEN Len(ps) ELSE CHOOSE i \in after : \A j \in after : i <= j
        wc == word_count(extract_text_between(ps, abstract_idx + 1, next_idx))
    IN  IF abstract_idx # None /\ wc > 600
        THEN <<Issue("CNT-ABS-001", "High", Text("Abstract appears longer than one page."),
                     TextWith("Estimated abstract word count: ", wc),
                     TextWith("Paragraph ", abstract_idx + 1), abstract_idx)>>
        ELSE <<>>

\* lines 252-296
check_keywords(ps) ==
    LET kw_idx == find_heading_like(ps, <<KeyWordsHeading, Keywords>>)
        kw_lines == lines_until(ps, kw_idx + 1, Min(kw_idx + 30, Len(ps)),
                        {lower(Acknowledgements), lower(Dedication), lower(TableOfContents),
                         lower(ChapterOne), lower(Chapter1)})
        one_line == Len(kw_lines) = 1 /\ \E i \in 1..Len(kw_lines[1]) : kw_lines[1][i] = ","
        kws == IF one_line THEN comma_separated(kw_lines[1])
               ELSE SelectSeq([k \in 1..Len(kw_lines) |->
                                  strip(strip_chars(kw_lines[k], {Bullet, "-", " ", "  ", Tab}))],
                              LAMBDA t : t # <<>>)
        lowered == [k \in 1..Len(kws) |-> lower(kws[k])]
        at == TextWith("Paragraph ", kw_idx + 1)
    IN  IF kw_idx = None THEN <<>>
        ELSE
            (IF one_line
             THEN <<Issue("CNT-KW-001", "High",
                          Text("Key words should be listed vertically (one per line)."),
                          Text(kw_lines[1]), at, kw_idx)>>
             ELSE <<>>)
            \o (IF Len(kws) # 6
                THEN <<Issue("CNT-KW-002", "High", Text("Provide exactly six key words/phrases."),
                             TextWith("Detected ", kws), at, kw_idx)>>
                ELSE <<>>)
            \o (IF Len(kws) > 0 /\ lowered # sorted_str(lowered)
                THEN <<Issue("CNT-KW-003", "Medium",
                             Text("Key words should be in alphabetical order."),
                             TextWith("", kws), at, kw_idx)>>
                ELSE <<>>)

\* lines 299-319
check_dedication(ps) ==
    LET ded_idx == find_exact_heading_index(ps, Dedication)
        ded_lines == lines_until(ps, ded_idx + 1, Min(ded_idx + 10, Len(ps)),
                         {lower(TableOfContents), lower(ChapterOne), lower(Chapter1),
                          lower(Acknowledgements)})
    IN  IF ded_idx # None /\ Len(ded_lines) > 2
        THEN <<Issue("CNT-DED-001", "High",
                     Text("Dedication should not be longer than two lines."),
                     TextWith("Detected dedication lines/paragraphs: ", Len(ded_lines)),
                     TextWith("Paragraph ", ded_idx + 1), ded_idx)>>
        ELSE <<>>

\* lines 221-321
check_abstract_keywords_dedication(doc) ==
    LET ps == iter_paragraphs(doc)
    IN  check_abstract(ps) \o check_keywords(ps) \o check_dedication(ps)

----------------------------------------------------------------------------
(* Specification of check_abstract_keywords_dedication on one document *)

\* key words in case-insensitive alphabetical order
SortedTerms == <<<<"a">>, <<"a", "b">>, <<"B">>, <<"c">>, <<"D">>, <<"e">>, <<"f">>, <<"g">>>>

\* the terms of SortedTerms at the positions S, in order
Selection(S) == [k \in 1..Cardinality(S) |-> SortedTerms[sorted_set(S)[k]]]

Selections(n) == {Selection(S) : S \in {T \in SUBSET (1..Len(SortedTerms)) : Cardinality(T) = n}}

\* the list with the terms at k and k + 1 exchanged
Swapped(terms, k) ==
    [i \in 1..Len(terms) |->
        IF i = k THEN terms[k + 1] ELSE IF i = k + 1 THEN terms[k] ELSE terms[i]]

TermLists ==
    Selections(5) \cup Selections(6) \cup Selections(7)
    \cup {Swapped(terms, k) : terms \in Selections(6), k \in 1..5}

\* one term per paragraph
Vertical(terms) == terms
Bulleted(terms) == [k \in 1..Len(terms) |-> <<Bullet, Space>> \o terms[k]]
\* the terms joined by ", " in one paragraph
RECURSIVE CommaJoined(_)
CommaJoined(terms) ==
    IF Len(terms) = 1 THEN terms[1]
    ELSE terms[1] \o <<",", Space>> \o CommaJoined(Tail(terms))
OneLine(terms) == <<CommaJoined(terms)>>

Blocks(terms) == {Vertical(terms), Bulleted(terms), OneLine(terms)}

KeyWordsHeadings == {KeyWordsHeading, Keywords, <<"KEY", Space, "WORDS">>}

\* what follows the block: the end of the document, an empty paragraph and
\* text, one of the headings that end the block
BlockEnds == {<<>>, <<<<>>, <<"results">>>>, <<Acknowledgements, <<"results">>>>,
              <<ChapterOne>>}

KeywordsDocument(h, block, end) == <<Abstract, <<"results">>, h>> \o block \o end

\* a text of n words
Words(n) == [i \in 1..(2 * n - 1) |-> IF i % 2 = 1 THEN "results" ELSE Space]

AbstractDocuments ==
    { <<Abstract, Words(600)>>, <<Abstract, Words(601)>>,
      <<Abstract, Words(300), Words(301)>>,
      <<Abstract, Words(300), KeyWordsHeading, Words(301)>>,
      <<Abstract, Words(300), Keywords, Words(301)>>,
      <<Words(601)>> }

DedicationDocuments ==
    { <<Dedication>> \o lines \o end :
        lines \in UNION {[1..n -> {<<"results">>}] : n \in 0..3},
        end \in {<<>>, <<<<>>, <<"results">>>>, <<TableOfContents>>, <<<<"results">>>>} }

ContentDocuments ==
    {KeywordsDocument(h, block, end) :
        h \in KeyWordsHeadings,
        block \in UNION {Blocks(terms) : terms \in TermLists},
        end \in BlockEnds}
    \cup AbstractDocuments \cup DedicationDocuments

InitContent ==
    /\ paras \in ContentDocuments
    /\ degree_type = "" /\ structure_out = <<>>
    /\ layout = <<>> /\ heading_in = <<>>
    /\ result = <<>>
    /\ pc = "start"
    /\ IdleInjector /\ IdleSerial

CheckContent ==
    /\ pc = "start"
    /\ result' = check_abstract_keywords_dedication(paras)
    /\ pc' = "done"
    /\ UNCHANGED <<paras, degree_type, structure_out, layout, heading_in,
                   injectorVars, serialVars>>

NextContent == CheckContent

SpecContent == InitContent /\ [][NextContent]_vars

----------------------------------------------------------------------------
(* Properties of check_abstract_keywords_dedication *)

KeywordRules == {"CNT-KW-001", "CNT-KW-002", "CNT-KW-003"}
KeywordFindings == SelectSeq(result, LAMBDA f : f.rule_id \in KeywordRules)

\* C15: for a Key Words block of exactly six terms in case-insensitive
\* alphabetical order, no keyword finding is emitted when the terms are one
\* per line, and exactly one keyword finding, CNT-KW-001, when the same
\* terms are comma-joined on a single line.
C15_SixSortedKeywords ==
    pc = "done" =>
        \A terms \in Selections(6), h \in KeyWordsHeadings, end \in BlockEnds :
            /\ paras = KeywordsDocument(h, Vertical(terms), end) => KeywordFindings = <<>>
            /\ paras = KeywordsDocument(h, OneLine(terms), end) =>
                  /\ Len(KeywordFindings) = 1
                  /\ KeywordFindings[1].rule_id = "CNT-KW-001"

C15_Witness ==
    /\ pc = "done"
    /\ paras = KeywordsDocument(KeyWordsHeading,
                   OneLine(<<<<"a">>, <<"B">>, <<"c">>, <<"D">>, <<"e">>, <<"f">>>>),
                   <<Acknowledgements, <<"results">>>>)
    /\ Len(result) = 1
    /\ result[1].rule_id = "CNT-KW-001"

----------------------------------------------------------------------------
(* check_chapter_one_template, src/Checker.py 451-487 *)

OfThe(first, last) == <<first, Space, "of", Space, "the", Space, last>>

\* lines 460-470
required_subheads ==
    << OfThe("Background", "Study"), OfThe("Statement", "Problem"),
       OfThe("Purpose", "Study"), <<"Research", Space, "Objectives">>,
       <<"Research", Space, "Questions">>, OfThe("Significance", "Study"),
       OfThe("Limitations", "Study"), OfThe("Delimitation", "Study"),
       OfThe("Structure", "Thesis") >>

check_chapter_one_template(doc) ==
    LET ps == iter_paragraphs(doc)
        ch1 == find_heading_like(ps, <<ChapterOne, <<"CHAPTER", Space, "ONE">>,
                                       Chapter1, <<"CHAPTER", Space, "1">>>>)
        ch2 == find_heading_like(ps, <<<<"Chapter", Space, "Two">>, <<"CHAPTER", Space, "TWO">>,
                                       <<"Chapter", Space, "2">>, <<"CHAPTER", Space, "2">>>>)
        end == IF ch2 # None /\ ch2 > ch1 THEN ch2 ELSE Min(Len(ps), ch1 + 250)
        \* paras[ch1:end]
        window == {lower(ps[i].text) : i \in {j \in (ch1 + 1)..end : ps[j].text # <<>>}}
        missing == SelectSeq(required_subheads, LAMBDA h : lower(h) \notin window)
    IN  IF ch1 = None THEN <<>>
        ELSE IF Len(missing) > 0
        THEN <<Issue("CH1-TPL-001", "High",
                     Text("Chapter One is missing expected sub-headings used in the approved structure."),
                     TextWith("Missing: ", missing),
                     TextWith("Chapter One (around paragraph )", ch1 + 1), ch1)>>
        ELSE <<>>

----------------------------------------------------------------------------
(* check_formatting, src/Checker.py 45-49, 327-445                          *)
(*                                                                          *)
(* Margins are in hundredths of an inch, font sizes in half-points (the     *)
(* unit of w:sz), line spacing multiples in hundredths.  The layout of a    *)
(* document gives its sections and, for each paragraph, its runs, its line  *)
(* spacing and its alignment.                                               *)

\* line 45, in half-points
REQ_FONT_SIZE == 24
\* line 46
PREFERRED_FONT == <<"Times", Space, "New", Space, "Roman">>
\* line 47, in hundredths
REQ_DOUBLE_SPACING == 200
\* line 48, in hundredths of an inch
REQ_LEFT_MARGIN_INCH == 200
\* line 49, in hundredths of an inch
REQ_OTHER_MARGIN_INCH == 100

abs(x) == IF x < 0 THEN -x ELSE x

\* an Optional[str]: None is the empty list, a name the list of it
NoName == <<>>
Named(name) == <<name>>

\* paragraph_format.line_spacing: None, a float multiple, a Length
NoSpacing == [kind |-> "none", value |-> 0]
Multiple(v) == [kind |-> "float", value |-> v]
Exactly(v) == [kind |-> "length", value |-> v]

\* lines 331-349
check_margins(sections) ==
    IF \E k \in 1..Len(sections) :
           \/ abs(sections[k].left - REQ_LEFT_MARGIN_INCH) > 5
           \/ abs(sections[k].right - REQ_OTHER_MARGIN_INCH) > 5
           \/ abs(sections[k].top - REQ_OTHER_MARGIN_INCH) > 5
           \/ abs(sections[k].bottom - REQ_OTHER_MARGIN_INCH) > 5
    THEN LET sidx == CHOOSE k \in 1..Len(sections) :
                        /\ \/ abs(sections[k].left - REQ_LEFT_MARGIN_INCH) > 5
                           \/ abs(sections[k].right - REQ_OTHER_MARGIN_INCH) > 5
                           \/ abs(sections[k].top - REQ_OTHER_MARGIN_INCH) > 5
                           \/ abs(sections[k].bottom - REQ_OTHER_MARGIN_INCH) > 5
                        /\ \A j \in 1..(k - 1) :
                              /\ abs(sections[j].left - REQ_LEFT_MARGIN_INCH) <= 5
                              /\ abs(sections[j].right - REQ_OTHER_MARGIN_INCH) <= 5
                              /\ abs(sections[j].top - REQ_OTHER_MARGIN_INCH) <= 5
                              /\ abs(sections[j].bottom - REQ_OTHER_MARGIN_INCH) <= 5
         IN  <<Issue("FMT-MARG-001", "High",
                     Text("Margins must be 2-inch left and 1-inch top/bottom/right."),
                     TextWith("Section margins", sections[sidx]),
                     TextWith("Document sections: ", sidx), 0)>>
    ELSE <<>>

\* lines 357-375: the runs sampled, at most 500 of the first 4000 paragraphs
sampled_runs(doc, formats) ==
    LET first == [i \in 1..Min(4000, Len(doc)) |->
                     IF strip(doc[i]) = <<>> THEN <<>>
                     ELSE SelectSeq(formats[i].runs, LAMBDA r : strip(r.text) # <<>>)]
        runs == flatten(first)
    IN  SubSeq(runs, 1, Min(500, Len(runs)))

\* lines 364-371 and 377-395
check_fonts(doc, formats) ==
    LET sampled == sampled_runs(doc, formats)
        size_bad == Cardinality({k \in 1..Len(sampled) :
                        /\ sampled[k].size # None
                        /\ abs(sampled[k].size - REQ_FONT_SIZE) > 1})
        font_bad == Cardinality({k \in 1..Len(sampled) :
                        /\ sampled[k].name # NoName
                        /\ normalise(sampled[k].name[1]) # normalise(PREFERRED_FONT)})
    IN  (IF size_bad > 40
         THEN <<Issue("FMT-FONT-001", "High", Text("Font size should be 12 throughout."),
                      TextWith("Sample check", <<size_bad, Len(sampled)>>),
                      "Main text sample", 0)>>
         ELSE <<>>)
        \o
        (IF font_bad > 80
         THEN <<Issue("FMT-FONT-002", "Medium",
                      Text("Font should preferably be Times New Roman throughout."),
                      TextWith("Sample check", <<font_bad, Len(sampled)>>),
                      "Main text sample", 0)>>
         ELSE <<>>)

\* lines 403-443
check_paragraph_formats(doc, formats) ==
    LET checked == {i \in 1..Min(3000, Len(doc)) : strip(doc[i]) # <<>>}
        spacing_bad == Cardinality({i \in checked :
                           /\ formats[i].line_spacing.kind = "float"
                           /\ abs(formats[i].line_spacing.value - REQ_DOUBLE_SPACING) > 15})
        justify_bad == Cardinality({i \in checked :
                           formats[i].alignment # None /\ formats[i].alignment # 3})
    IN  (IF spacing_bad > 30
         THEN <<Issue("FMT-SPC-001", "High", Text("Double spacing must be used throughout."),
                      TextWith("Detected", <<spacing_bad, Cardinality(checked)>>),
                      "Main text sample", 0)>>
         ELSE <<>>)
        \o
        (IF justify_bad > 60
         THEN <<Issue("FMT-ALN-001", "Medium",
                      Text("Text should be justified on both left and right margins."),
                      TextWith("Detected", <<justify_bad, Cardinality(checked)>>),
                      "Main text sample", 0)>>
         ELSE <<>>)

\* lines 327-445
check_formatting(doc, lay) ==
    check_margins(lay.sections)
    \o check_fonts(doc, lay.formats)
    \o check_paragraph_formats(doc, lay.formats)

----------------------------------------------------------------------------
(* check_similarity_report_mention and run_checks, src/Checker.py 656-668,  *)
(* 793-831                                                                   *)

\* needle in text, for two str
contains(text, needle) ==
    \E i \in 0..(Len(text) - Len(needle)) : SubSeq(text, i + 1, i + Len(needle)) = needle

\* lines 656-668
check_similarity_report_mention(doc) ==
    LET text == lower(join(SelectSeq(doc, LAMBDA t : t # <<>>)))
    IN  IF /\ ~contains(text, <<"similarity", Space, "index", Space, "report">>)
           /\ ~contains(text, <<"turnitin">>)
        THEN <<Issue("ETH-SIM-001", "Medium",
                     Text("No mention of Similarity Index Report found."),
                     Text("Did not find 'Similarity Index Report' or 'Turnitin'."),
                     "Document-wide", 0)>>
        ELSE <<>>

\* sum(1 for i in issues if i.severity == severity)
count_severity(iss, severity) ==
    Cardinality({k \in 1..Len(iss) : iss[k].severity = severity})

\* lines 821-831, for the list of findings collected
score(iss) ==
    [issues |-> iss,
     meta |-> [issues_total |-> Len(iss),
               issues_high |-> count_severity(iss, "High"),
               issues_medium |-> count_severity(iss, "Medium"),
               issues_low |-> count_severity(iss, "Low")]]

\* a variant that stops when check_references reports the missing heading
run_checks_stopping(doc, lay, degree) ==
    LET refs == check_references(doc)
    IN  score(check_structure(doc, degree)
              \o check_abstract_keywords_dedication(doc)
              \o check_chapter_one_template(doc)
              \o check_formatting(doc, lay)
              \o check_captions(doc).issues
              \o refs
              \o (IF Len(refs) = 1 /\ refs[1].rule_id = "APA-REF-001" THEN <<>>
                  ELSE check_similarity_report_mention(doc)))

\* a variant that keeps one finding for each anchor paragraph and severity
run_checks_deduplicated(doc, lay, degree) ==
    LET iss == check_structure(doc, degree)
               \o check_abstract_keywords_dedication(doc)
               \o check_chapter_one_template(doc)
               \o check_formatting(doc, lay)
               \o check_captions(doc).issues
               \o check_references(doc)
               \o check_similarity_report_mention(doc)
        kept == SelectSeq([k \in 1..Len(iss) |-> k],
                    LAMBDA k : \A j \in 1..(k - 1) :
                        \/ iss[j].anchor_paragraph_index # iss[k].anchor_paragraph_index
                        \/ iss[j].severity # iss[k].severity)
    IN  score([k \in 1..Len(kept) |-> iss[kept[k]]])

\* lines 793-831: the document is its paragraph texts with their layout
run_checks(doc, lay, degree) ==
    score(check_structure(doc, degree)
          \o check_abstract_keywords_dedication(doc)
          \o check_chapter_one_template(doc)
          \o check_formatting(doc, lay)
          \o check_captions(doc).issues
          \o check_references(doc)
          \o check_similarity_report_mention(doc))

----------------------------------------------------------------------------
(* The documents run_checks is run on *)

ThreeEntries ==
    << Entry("Smith", 2020, <<>>), <<>>, Entry("Jones", 2021, <<>>), <<>>,
       Entry("Mensah", 2019, <<>>) >>

SixTerms == <<<<"a">>, <<"B">>, <<"c">>, <<"D">>, <<"e">>, <<"f">>>>

TurnitinMention == <<"results", Space, "Turnitin">>

\* the optional parts of a document
Options ==
    [chapters : ChapterForms, keywords : BOOLEAN, dedication : BOOLEAN,
     tables : BOOLEAN, appendices : {"before", "after"}]

\* a document with every heading the evaluators look for, the nine
\* sub-headings of chapter one, three entries each cited once and a mention
\* of Turnitin
Thesis(o) ==
    <<Declaration, Abstract, <<"results">>>>
    \o (IF o.keywords THEN <<KeyWordsHeading>> \o SixTerms ELSE <<>>)
    \o <<Acknowledgements>>
    \o (IF o.dedication THEN <<Dedication, <<"results">>>> ELSE <<>>)
    \o <<TableOfContents>>
    \o (IF o.tables THEN <<ListOfTables>> ELSE <<>>)
    \o <<ChapterHeading(1, o.chapters)>> \o required_subheads
    \o <<Parenthetical("Smith", 2020)>>
    \o (IF o.tables THEN <<PlainCaption("Table", 1)>> ELSE <<>>)
    \o <<ChapterHeading(2, o.chapters), Narrative("Jones", 2021),
         ChapterHeading(3, o.chapters), Parenthetical("Mensah", 2019),
         ChapterHeading(4, o.chapters), TurnitinMention,
         ChapterHeading(5, o.chapters)>>
    \o (IF o.appendices = "before" THEN <<Appendices, Vita>> ELSE <<>>)
    \o <<References>> \o ThreeEntries
    \o (IF o.appendices = "after" THEN <<Appendices, Vita>> ELSE <<>>)

Plain ==
    [chapters |-> "numeral", keywords |-> FALSE, dedication |-> FALSE,
     tables |-> FALSE, appendices |-> "before"]

\* the document without its paragraph k
Drop(doc, k) == SubSeq(doc, 1, k - 1) \o SubSeq(doc, k + 1, Len(doc))

\* paragraphs put before chapter two of the plain document
Inserted ==
    { <<"[", "1", "2", "]">>, <<"ibid", ".">>, DecimalCaption("Table", 2, 1),
      PlainCaption("Table", 2), PlainCaption("Figure", 1),
      Parenthetical("O'Brien", 2019), <<>> }

Insert(doc, k, text) == SubSeq(doc, 1, k) \o <<text>> \o SubSeq(doc, k + 1, Len(doc))

\* the plain document with n more paragraphs of text at its end of chapter four
Long(n) ==
    LET at == index(Thesis(Plain), TurnitinMention) + 1
    IN  SubSeq(Thesis(Plain), 1, at) \o [k \in 1..n |-> <<"results">>]
        \o SubSeq(Thesis(Plain), at + 1, Len(Thesis(Plain)))

Margins(left, right, top, bottom) ==
    [left |-> left, right |-> right, top |-> top, bottom |-> bottom]

\* one format for every paragraph: each has its text in two runs with an
\* empty run between them, all of the given size and font
Uniform(doc, size, name, line_spacing, alignment, sections) ==
    [sections |-> sections,
     formats |-> [i \in 1..Len(doc) |->
                     [runs |-> <<[text |-> doc[i], size |-> size, name |-> name],
                                 [text |-> <<Space>>, size |-> size, name |-> name],
                                 [text |-> doc[i], size |-> size, name |-> name]>>,
                      line_spacing |-> line_spacing,
                      alignment |-> alignment]]]

Required == <<Margins(REQ_LEFT_MARGIN_INCH, REQ_OTHER_MARGIN_INCH,
                      REQ_OTHER_MARGIN_INCH, REQ_OTHER_MARGIN_INCH)>>

\* layouts within the requirements: set explicitly, inherited, inside the
\* tolerances (a value at a tolerance itself is decided by the rounding of
\* binary floating point and is left out)
CompliantLayouts(doc) ==
    { Uniform(doc, REQ_FONT_SIZE, Named(PREFERRED_FONT), Multiple(REQ_DOUBLE_SPACING), 3, Required),
      Uniform(doc, None, NoName, NoSpacing, None, Required),
      Uniform(doc, REQ_FONT_SIZE + 1, Named(<<"times", "  ", "new", Space, "roman">>),
              Multiple(REQ_DOUBLE_SPACING + 10), 3,
              <<Margins(REQ_LEFT_MARGIN_INCH + 3, REQ_OTHER_MARGIN_INCH - 2,
                        REQ_OTHER_MARGIN_INCH, REQ_OTHER_MARGIN_INCH)>>),
      Uniform(doc, REQ_FONT_SIZE, NoName, Exactly(12), 3, Required \o Required) }

\* layouts that depart from one requirement in every paragraph or section
OtherLayouts(doc) ==
    { Uniform(doc, REQ_FONT_SIZE - 4, NoName, NoSpacing, None, Required),
      Uniform(doc, None, Named(<<"Arial">>), NoSpacing, None, Required),
      Uniform(doc, None, NoName, Multiple(100), None, Required),
      Uniform(doc, None, NoName, NoSpacing, 0, Required),
      Uniform(doc, None, NoName, NoSpacing, None,
              Required \o <<Margins(REQ_OTHER_MARGIN_INCH, REQ_OTHER_MARGIN_INCH,
                                    REQ_OTHER_MARGIN_INCH, REQ_OTHER_MARGIN_INCH)>>),
      Uniform(doc, REQ_FONT_SIZE - 4, Named(<<"Arial">>), Multiple(100), 1,
              <<Margins(REQ_LEFT_MARGIN_INCH, REQ_OTHER_MARGIN_INCH + 6,
                        REQ_OTHER_MARGIN_INCH, REQ_OTHER_MARGIN_INCH)>>) }

CompliantTheses == {Thesis(o) : o \in Options}

WithInsertion ==
    {Insert(Thesis(Plain), index(Thesis(Plain), ChapterHeading(2, "numeral")), text) :
        text \in Inserted}

\* the document without its References heading
WithoutReferences(doc) == Drop(doc, index(doc, References) + 1)

OtherTheses ==
    {Drop(Thesis(Plain), k) : k \in 1..Len(Thesis(Plain))}
    \cup WithInsertion
    \cup {WithoutReferences(doc) : doc \in WithInsertion}
    \cup {Drop(WithoutReferences(Thesis(Plain)), index(Thesis(Plain), TurnitinMention) + 1)}

LongTheses == {Long(MaxFiller), Long(MaxFiller \div 2), Long(MaxFiller - 1)}

----------------------------------------------------------------------------
(* Specification of run_checks on one document *)

InitRun ==
    /\ \E doc \in CompliantTheses \cup OtherTheses \cup LongTheses :
          /\ paras = doc
          /\ layout \in CompliantLayouts(doc) \cup OtherLayouts(doc)
    /\ degree_type \in Degrees
    /\ structure_out = <<>> /\ heading_in = <<>>
    /\ result = <<>>
    /\ pc = "start"
    /\ IdleInjector /\ IdleSerial

RunChecks ==
    /\ pc = "start"
    /\ result' = run_checks(paras, layout, degree_type)
    /\ pc' = "done"
    /\ UNCHANGED <<paras, degree_type, structure_out, layout, heading_in,
                   injectorVars, serialVars>>

NextRun == RunChecks

SpecRun == InitRun /\ [][NextRun]_vars

----------------------------------------------------------------------------
(* Properties of run_checks *)

\* the rules of check_references and check_apa_only_citation_style
ReferenceRules ==
    {"APA-REF-001", "APA-REF-002", "APA-REF-003", "APA-REF-010", "APA-CIT-001",
     "APA-CIT-002", "APA-CIT-010", "APA-MATCH-001", "APA-MATCH-002"}

OfReferences(out) == SelectSeq(out, LAMBDA f : f.rule_id \in ReferenceRules)
NotOfReferences(out) == SelectSeq(out, LAMBDA f : f.rule_id \notin ReferenceRules)

\* the findings of the other evaluators, each run on its own
OtherEvaluators ==
    check_structure(paras, degree_type)
    \o check_abstract_keywords_dedication(paras)
    \o check_chapter_one_template(paras)
    \o check_formatting(paras, layout)
    \o check_serial(detect_table_figure_labels(paras).tables, "Table", "APA-TBL-001")
    \o check_serial(detect_table_figure_labels(paras).figures, "Figure", "APA-FIG-001")
    \o check_lists(paras, detect_table_figure_labels(paras))
    \o check_similarity_report_mention(paras)

\* C12: when the document has no References heading, the reference and
\* citation findings of the run are exactly one APA-REF-001 finding of
\* severity High, and the other findings of the run are those of the
\* structure, front-matter content, chapter-one template, formatting, caption,
\* list-presence and ethics evaluators, each as produced on its own.
C12_MissingReferencesStopsOnlyItsEvaluator ==
    (pc = "done" /\ Absent(References)) =>
        /\ Len(check_references(paras)) = 1
        /\ OfReferences(result.issues) = check_references(paras)
        /\ OfReferences(result.issues)[1].rule_id = "APA-REF-001"
        /\ OfReferences(result.issues)[1].severity = "High"
        /\ NotOfReferences(result.issues) = OtherEvaluators

C12_Witness ==
    /\ pc = "done"
    /\ Absent(References)
    /\ \E i \in 1..Len(paras) : paras[i] = <<"ibid", ".">>
    /\ Len(OfReferences(result.issues)) = 1
    /\ WithRule(result.issues, "STR-BM-001") # <<>>
    /\ WithRule(result.issues, "FMT-MARG-001") # <<>>

\* C16: run_checks returns an empty list and issues_total = 0 for every
\* document with all required headings in order, five ordered chapter
\* headings, three reference entries each cited once and no other citation,
\* compliant margins, fonts, spacing and alignment, and a mention of Turnitin.
C16_CompliantThesisHasNoFinding ==
    (pc = "done" /\ paras \in CompliantTheses /\ layout \in CompliantLayouts(paras)) =>
        /\ result.issues = <<>>
        /\ result.meta.issues_total = 0

WithSeverity(out, severity) == SelectSeq(out, LAMBDA f : f.severity = severity)

\* C17: issues_total is the length of the returned list; issues_high,
\* issues_medium and issues_low are the numbers of returned findings of
\* severity High, Medium and Low, and they add up to issues_total; every
\* finding of every evaluator is in the list, so that a document without a
\* References heading has both STR-BM-001 and APA-REF-001.
C17_CountsMatchTheList ==
    pc = "done" =>
        /\ result.meta.issues_total = Len(result.issues)
        /\ result.meta.issues_high = Len(WithSeverity(result.issues, "High"))
        /\ result.meta.issues_medium = Len(WithSeverity(result.issues, "Medium"))
        /\ result.meta.issues_low = Len(WithSeverity(result.issues, "Low"))
        /\ result.meta.issues_total =
              result.meta.issues_high + result.meta.issues_medium + result.meta.issues_low
        /\ Len(result.issues) = Len(OtherEvaluators) + Len(check_references(paras))
        /\ \A rule \in {"STR-BM-001", "STR-BM-002", "STR-PHD-001"} :
              WithRule(result.issues, rule) = WithRule(check_structure(paras, degree_type), rule)
        /\ \A rule \in ReferenceRules :
              WithRule(result.issues, rule) = WithRule(check_references(paras), rule)
        /\ Absent(References) =>
              /\ Len(WithRule(result.issues, "STR-BM-001")) = 1
              /\ Len(WithRule(result.issues, "APA-REF-001")) = 1

C17_Witness ==
    /\ pc = "done"
    /\ Absent(References)
    /\ Len(WithRule(result.issues, "STR-BM-001")) = 1
    /\ Len(WithRule(result.issues, "APA-REF-001")) = 1
    /\ result.meta.issues_high >= 2
    /\ result.meta.issues_medium >= 1
    /\ result.meta.issues_total = result.meta.issues_high + result.meta.issues_medium

----------------------------------------------------------------------------
(* Specification of find_exact_heading_index, src/Checker.py 76-85: the     *)
(* lookup of one heading in the paragraphs of one document                  *)

\* a heading typed with two blanks between its first two words
WideSpaced(text) == <<text[1], "  ">> \o SubSeq(text, 3, Len(text))

\* a heading typed with a line break between its first two words
OnTwoLines(text) == <<text[1], Newline>> \o SubSeq(text, 3, Len(text))

\* the headings looked up by the evaluators, lines 130, 233-236 and 602
LookedUp == {TableOfContents, KeyWordsHeading, References}

HeadingTexts ==
    {TableOfContents, Shouted(TableOfContents), Padded(TableOfContents),
     WideSpaced(TableOfContents), OnTwoLines(TableOfContents),
     KeyWordsHeading, Padded(KeyWordsHeading), WideSpaced(KeyWordsHeading),
     References, Shouted(References), <<"results">>}

HeadingDocuments ==
    UNION {[1..n -> HeadingTexts] : n \in 1..MaxHeadingParas}

InitHeading ==
    /\ paras \in HeadingDocuments
    /\ heading_in \in LookedUp
    /\ result = <<>>
    /\ pc = "start"
    /\ degree_type = "" /\ structure_out = <<>> /\ layout = <<>>
    /\ IdleInjector /\ IdleSerial

FindHeading ==
    /\ pc = "start"
    /\ result' = [index |-> find_exact_heading_index(iter_paragraphs(paras), heading_in)]
    /\ pc' = "done"
    /\ UNCHANGED <<paras, degree_type, structure_out, layout, heading_in,
                   injectorVars, serialVars>>

NextHeading == FindHeading

SpecHeading == InitHeading /\ [][NextHeading]_vars

\* the paragraphs whose normalised text is the normalised heading
NormalisedMatches == {i \in 1..Len(paras) : normalise(paras[i]) = normalise(heading_in)}

\* C18: find_exact_heading_index returns the smallest index of a paragraph
\* whose normalised text equals the normalised heading, and None when there
\* is no such paragraph; a heading paragraph typed with a run of whitespace
\* inside it is found.
C18_FoundByNormalisedText ==
    pc = "done" =>
        result.index = IF NormalisedMatches = {} THEN None
                       ELSE (CHOOSE i \in NormalisedMatches :
                                \A j \in NormalisedMatches : i <= j) - 1

----------------------------------------------------------------------------
(* The annotation structure after any sequence of add_word_comments runs *)

\* a container whose main content part and comments part can be read
Annotated(file) ==
    /\ file.exists
    /\ DocName \in DOMAIN file.parts
    /\ fromstring_ok(file.parts[DocName])
    /\ comments_name \in DOMAIN file.parts => fromstring_ok(file.parts[comments_name])

\* the places <<paragraph, child>> of the element el in the body
Places(body, el) ==
    {pl \in UNION {{<<j, k>> : k \in 1..Len(body[j])} : j \in 1..Len(body)} :
        body[pl[1]][pl[2]] = el}

\* comment c has one start, one end and one reference, in this order in one
\* paragraph
Anchor(body, c) ==
    /\ Cardinality(Places(body, RangeStart(c))) = 1
    /\ Cardinality(Places(body, RangeEnd(c))) = 1
    /\ Cardinality(Places(body, RefRun(c))) = 1
    /\ \E s \in Places(body, RangeStart(c)), e \in Places(body, RangeEnd(c)),
          r \in Places(body, RefRun(c)) :
            /\ s[1] = e[1] /\ e[1] = r[1]
            /\ s[2] < e[2] /\ e[2] < r[2]

WellFormedComments(file) ==
    LET body == fromstring(file.parts[DocName])
        comments == CommentsOf(file.parts)
    IN  /\ \A c \in IdsOf(comments) : Anchor(body, c)
        /\ \A j \in 1..Len(body) : \A k \in 1..Len(body[j]) :
              body[j][k].id # NoId => body[j][k].id \in IdsOf(comments)

\* C19: in every container the injector is given or writes, run after run,
\* every comment identifier of the comments part has exactly one range start,
\* one range end and one reference run in the main content part, the three
\* in one paragraph in the order start, end, reference, and every marker of
\* the main content part carries an identifier of the comments part.
C19_AnnotationsStayWellFormed ==
    /\ Annotated(input_docx) => WellFormedComments(input_docx)
    /\ Annotated(output_docx) => WellFormedComments(output_docx)

\* a second run has added two comments to one paragraph of a container that
\* already carried a comment of the tool
C19_Witness ==
    /\ Returned
    /\ \E i \in 1..Len(InComments) : InComments[i].author = "Thesis Compliance Checker"
    /\ Cardinality(NewIds) >= 2
    /\ \E j \in 1..Len(OutBody) : StartsIn(OutBody[j]) >= 3
    /\ WellFormedComments(output_docx)

====
